---- MODULE Spec2Model ----
(***************************************************************************)
(* Memory-X: the four-level memory hierarchy (Original, Episode, Semantic, *)
(* Theme), its three store backends (SQLiteMemoryStore on better-sqlite3,  *)
(* SqlJsMemoryStore on sql.js, the engine's InMemoryStore), the            *)
(* MemoryEngine.remember write path, the memory_remember tool of the       *)
(* plugin, the ForgettingMechanism and the KnowledgeGraph.                 *)
(*                                                                         *)
(* Conventions of the model                                                *)
(*  - text that the code searches (content, summary, name, description,    *)
(*    entity names) is a sequence of one-character strings, so that        *)
(*    toLowerCase, includes and LIKE are computed as the code computes     *)
(*    them; enumerations (type, speaker, level) are TLA+ strings;          *)
(*  - a record id `${prefix}-${n}` is the pair <<prefix, n>>;              *)
(*  - a JavaScript object is a TLA+ record; a key that is absent or holds  *)
(*    undefined is a key that is not in the record's DOMAIN;               *)
(*  - T | null is a sequence of length at most one: <<>> is null;          *)
(*  - confidence and coherence scores are in hundredths (0.5 is 50),       *)
(*    importance in thousandths, retention in millionths.                  *)
(***************************************************************************)
EXTENDS Integers, Sequences, FiniteSets, TLC

VARIABLES
    backend,   \* which implementation is under test in this behaviour
    foreign_keys, \* PRAGMA foreign_keys of the better-sqlite3 build
    now,       \* Date.now()
    db,        \* the SQL database of SQLiteMemoryStore / SqlJsMemoryStore
    memories,  \* InMemoryStore.memories: level -> entries in insertion order
    files,     \* the plugin tool's workspace files
    graph,     \* KnowledgeGraph: entities, relations, entityNameIndex
    calls,     \* how many remember / KnowledgeGraph.update calls have been made
    index,     \* VectorIndex: embeddingProvider and the stored embeddings
    engine,    \* MemoryEngine: initialized, store, and the calls in flight
    reasoning, \* MultiHopReasoning: the DEFAULT_RULES array, each instance's rules
    ret        \* the last operation, its arguments and what it returned

vars ==
    <<backend, foreign_keys, now, db, memories, files, graph, calls, index,
      engine, reasoning, ret>>

----------------------------------------------------------------------------
(* Bounds of the model *)

MaxTime == 2      \* the clock runs over 1..MaxTime
MaxAccess == 1    \* get is tried on a row while its access_count is below this
MaxBatch == 2     \* saves inside one transaction(fn)

----------------------------------------------------------------------------
(* Generic helpers *)

Min(a, b) == IF a < b THEN a ELSE b
Max(a, b) == IF a > b THEN a ELSE b

Range(s) == {s[i] : i \in 1..Len(s)}

Levels == <<"original", "episode", "semantic", "theme">>

Null == <<>>
Some(v) == <<v>>

\* m.f when the key is present, as an option
Field(m, f) == IF f \in DOMAIN m THEN <<m[f]>> ELSE <<>>

\* String.prototype.toLowerCase, one character
UpperChars == <<"A","B","C","D","E","F","G","H","I","J","K","L","M",
                "N","O","P","Q","R","S","T","U","V","W","X","Y","Z">>
LowerChars == <<"a","b","c","d","e","f","g","h","i","j","k","l","m",
                "n","o","p","q","r","s","t","u","v","w","x","y","z">>
LowerChar(c) ==
    IF \E i \in 1..Len(UpperChars) : UpperChars[i] = c
    THEN LowerChars[CHOOSE i \in 1..Len(UpperChars) : UpperChars[i] = c]
    ELSE c

toLowerCase(s) == [i \in 1..Len(s) |-> LowerChar(s[i])]

\* String.prototype.includes
includes(text, q) ==
    \E i \in 0..(Len(text) - Len(q)) :
        \A j \in 1..Len(q) : text[i + j] = q[j]

\* `${prefix}-${n}` as text
IdText(id) == <<id[1], "-", ToString(id[2])>>

\* String.prototype.substring(0, n)
substring(s, n) == SubSeq(s, 1, Min(Len(s), n))

----------------------------------------------------------------------------
(* JavaScript's `a || b` on the value kinds the stores read back *)

EmptyObj == [k \in {} |-> 0]

\* { [k]: md[k] } when md has the key, {} when md[k] is undefined
OptKey(md, k) == IF k \in DOMAIN md THEN (k :> md[k]) ELSE EmptyObj

\* md[k] || d for a number: undefined and 0 are falsy
OrNum(md, k, d) == IF k \in DOMAIN md /\ md[k] # 0 THEN md[k] ELSE d

\* md[k] || d for an enumeration string: undefined and "" are falsy
OrStr(md, k, d) == IF k \in DOMAIN md /\ md[k] # "" THEN md[k] ELSE d

\* md[k] || d for text: undefined and the empty text are falsy
OrText(md, k, d) == IF k \in DOMAIN md /\ md[k] # <<>> THEN md[k] ELSE d

\* md[k] || [] for an array: every array, the empty one too, is truthy
OrArr(md, k) == IF k \in DOMAIN md THEN md[k] ELSE <<>>

----------------------------------------------------------------------------
(* What the three stores share: the level and the searched text of a record *)

getLevel(memory) ==
    IF "originalIds" \in DOMAIN memory THEN "episode"
    ELSE IF "sourceEpisodes" \in DOMAIN memory THEN "semantic"
    ELSE IF "semanticIds" \in DOMAIN memory THEN "theme"
    ELSE "original"

extractContent(memory) ==
    IF "content" \in DOMAIN memory THEN memory.content
    ELSE IF "summary" \in DOMAIN memory THEN memory.summary
    ELSE IF "description" \in DOMAIN memory THEN memory.description
    ELSE <<>>

\* The SQL operator  text LIKE '%' || q || '%'  (ASCII case-insensitive, with
\* the wildcards _ and % of the query text honoured).
RECURSIVE LikeAt(_, _, _, _)
LikeAt(pat, i, text, j) ==
    IF i > Len(pat) THEN j > Len(text)
    ELSE IF pat[i] = "%"
         THEN \E k \in j..(Len(text) + 1) : LikeAt(pat, i + 1, text, k)
    ELSE IF j > Len(text) THEN FALSE
    ELSE /\ (pat[i] = "_" \/ LowerChar(pat[i]) = LowerChar(text[j]))
         /\ LikeAt(pat, i + 1, text, j + 1)

Like(text, q) == LikeAt(<<"%">> \o q \o <<"%">>, 1, text, 1)

----------------------------------------------------------------------------
(* SQLiteMemoryStore (better-sqlite3)                                      *)
(* db.memories is the table keyed by its primary key id (SQL leaves the    *)
(* order of rows that tie in an ORDER BY open, so no row order is kept);   *)
(* the three join tables hold (owner, ref) pairs in rowid order, the order *)
(* their SELECT without ORDER BY returns.                                  *)

RetentionDefault == 1000000

EmptyDb ==
    [memories |-> EmptyObj, theme_relations |-> <<>>,
     episode_sources |-> <<>>, semantic_sources |-> <<>>]

HasRow(d, id) == id \in DOMAIN d.memories

RowOf(d, id) == d.memories[id]

\* the table without the row of id, and with row put in place of any such row
WithoutRow(tbl, id) == [k \in DOMAIN tbl \ {id} |-> tbl[k]]
WithRow(tbl, row) == [k \in DOMAIN tbl \cup {row.id} |->
                        IF k = row.id THEN row ELSE tbl[k]]

SQLiteMetaKeys ==
    {"timestamp", "sessionId", "speaker", "metadata", "type", "confidence",
     "entityRefs", "validityPeriod", "name", "coherenceScore", "parentTheme",
     "childThemes", "boundaryType", "startTime", "endTime"}

SQLite_extractMetadata(memory) ==
    [k \in (SQLiteMetaKeys \cap DOMAIN memory) |-> memory[k]]

\* DELETE FROM memories WHERE id = ?; with foreign keys enforced the join rows
\* that reference the row go with it (ON DELETE CASCADE, both columns).
DeleteRow(d, fk, id) ==
    LET keep(j) == j.owner # id /\ j.ref # id
    IN [memories |-> WithoutRow(d.memories, id),
        theme_relations |->
            IF fk THEN SelectSeq(d.theme_relations, keep) ELSE d.theme_relations,
        episode_sources |->
            IF fk THEN SelectSeq(d.episode_sources, keep) ELSE d.episode_sources,
        semantic_sources |->
            IF fk THEN SelectSeq(d.semantic_sources, keep) ELSE d.semantic_sources]

\* The insert loop of saveThemeRelations / saveSemanticSources /
\* saveEpisodeSources: one INSERT per id, in list order. An INSERT throws when
\* its primary key `${owner}-${ref}` is taken or, with foreign keys enforced,
\* when ref is no row of memories; the rows inserted before it stay.
RECURSIVE InsertJoins(_, _, _, _, _, _)
InsertJoins(rows, owner, refs, i, d, fk) ==
    IF i > Len(refs) THEN [rows |-> rows, ok |-> TRUE]
    ELSE IF \/ \E k \in 1..Len(rows) : rows[k] = [owner |-> owner, ref |-> refs[i]]
            \/ (fk /\ ~HasRow(d, refs[i]))
         THEN [rows |-> rows, ok |-> FALSE]
    ELSE InsertJoins(Append(rows, [owner |-> owner, ref |-> refs[i]]),
                     owner, refs, i + 1, d, fk)

\* the insert loop alone, on top of the rows the owner already has
SaveJoins_NoDelete(rows, owner, refs, d, fk) ==
    InsertJoins(rows, owner, refs, 1, d, fk)

\* DELETE FROM <join table> WHERE <owner column> = ? and then the insert loop
SaveJoins(rows, owner, refs, d, fk) ==
    InsertJoins(SelectSeq(rows, LAMBDA j : j.owner # owner), owner, refs, 1, d, fk)

\* save(memory) at time t: [db, ok]; ok = FALSE when a statement threw
SQLite_save(d, fk, memory, t) ==
    LET level == getLevel(memory)
        row == [id |-> memory.id,
                level |-> level,
                content |-> extractContent(memory),
                embedding |-> Null,
                metadata |-> SQLite_extractMetadata(memory),
                created_at |-> OrNum(memory, "createdAt", t),
                updated_at |-> t,
                access_count |-> 0,
                last_accessed |-> t,
                retention_score |-> RetentionDefault]
        d0 == DeleteRow(d, fk, memory.id)
        d1 == [d0 EXCEPT !.memories = WithRow(@, row)]
    IN  IF level = "theme"
        THEN LET j == SaveJoins(d1.theme_relations, memory.id, memory.semanticIds, d1, fk)
             IN [db |-> [d1 EXCEPT !.theme_relations = j.rows], ok |-> j.ok]
        ELSE IF level = "semantic"
        THEN LET j == SaveJoins(d1.semantic_sources, memory.id, memory.sourceEpisodes, d1, fk)
             IN [db |-> [d1 EXCEPT !.semantic_sources = j.rows], ok |-> j.ok]
        ELSE IF level = "episode"
        THEN LET j == SaveJoins(d1.episode_sources, memory.id, memory.originalIds, d1, fk)
             IN [db |-> [d1 EXCEPT !.episode_sources = j.rows], ok |-> j.ok]
        ELSE [db |-> d1, ok |-> TRUE]

\* SELECT <ref column> FROM <join table> WHERE <owner column> = ?
JoinIds(rows, owner) ==
    LET mine == SelectSeq(rows, LAMBDA j : j.owner = owner)
    IN [i \in 1..Len(mine) |-> mine[i].ref]

getEpisodeSourceIds(d, id) == JoinIds(d.episode_sources, id)
getSemanticSourceIds(d, id) == JoinIds(d.semantic_sources, id)
getThemeSemanticIds(d, id) == JoinIds(d.theme_relations, id)

SQLite_rowToMemory(d, row) ==
    LET md == row.metadata
        base == [id |-> row.id, createdAt |-> row.created_at,
                 updatedAt |-> row.updated_at]
    IN  CASE row.level = "original" ->
               base @@ [content |-> row.content,
                        timestamp |-> OrNum(md, "timestamp", row.created_at),
                        sessionId |-> OrStr(md, "sessionId", "default"),
                        speaker |-> OrStr(md, "speaker", "user")]
                    @@ OptKey(md, "metadata")
          [] row.level = "episode" ->
               base @@ [summary |-> row.content,
                        originalIds |-> getEpisodeSourceIds(d, row.id),
                        startTime |-> OrNum(md, "startTime", row.created_at),
                        endTime |-> OrNum(md, "endTime", row.created_at),
                        boundaryType |-> OrStr(md, "boundaryType", "topic"),
                        coherenceScore |-> OrNum(md, "coherenceScore", 50)]
          [] row.level = "semantic" ->
               base @@ [content |-> row.content,
                        type |-> OrStr(md, "type", "fact"),
                        confidence |-> OrNum(md, "confidence", 50),
                        sourceEpisodes |-> getSemanticSourceIds(d, row.id),
                        entityRefs |-> OrArr(md, "entityRefs")]
                    @@ OptKey(md, "validityPeriod")
                    @@ OptKey(md, "conflictingWith")
          [] row.level = "theme" ->
               base @@ [name |-> OrText(md, "name", IdText(row.id)),
                        description |-> row.content,
                        semanticIds |-> getThemeSemanticIds(d, row.id),
                        coherenceScore |-> OrNum(md, "coherenceScore", 50)]
                    @@ OptKey(md, "parentTheme")
                    @@ OptKey(md, "childThemes")

\* UPDATE memories SET access_count = access_count + 1, last_accessed = ?
updateAccessCount(d, id, t) ==
    [d EXCEPT !.memories =
        [k \in DOMAIN @ |->
            IF k = id
            THEN [@[k] EXCEPT !.access_count = @ + 1, !.last_accessed = t]
            ELSE @[k]]]

\* get(id, level) at time t: [db, val]
SQLite_get(d, id, level, t) ==
    IF ~(HasRow(d, id) /\ RowOf(d, id).level = level)
    THEN [db |-> d, val |-> Null]
    ELSE LET d1 == updateAccessCount(d, id, t)
         IN [db |-> d1, val |-> Some(SQLite_rowToMemory(d1, RowOf(d, id)))]

\* delete(id): result.changes > 0
SQLite_delete(d, fk, id) ==
    [db |-> DeleteRow(d, fk, id), val |-> HasRow(d, id)]

\* transaction(fn) = this.db.transaction(fn)(): BEGIN, fn, then COMMIT, or
\* ROLLBACK and rethrow when fn threw. fn is `batch` saved in order, followed
\* by a throw when fnThrows; a save that throws ends fn at once.
RECURSIVE SaveAll(_, _, _, _, _)
SaveAll(d, fk, batch, i, t) ==
    IF i > Len(batch) THEN [db |-> d, ok |-> TRUE]
    ELSE LET r == SQLite_save(d, fk, batch[i], t)
         IN IF r.ok THEN SaveAll(r.db, fk, batch, i + 1, t) ELSE r

\* a wrapper that rethrows but leaves what fn had written
transaction_NoRollback(d, fk, batch, fnThrows, t) ==
    LET r == SaveAll(d, fk, batch, 1, t)
    IN [db |-> r.db, threw |-> ~r.ok \/ fnThrows]

SQLite_transaction(d, fk, batch, fnThrows, t) ==
    LET r == SaveAll(d, fk, batch, 1, t)
    IN IF r.ok /\ ~fnThrows
       THEN [db |-> r.db, threw |-> FALSE]
       ELSE [db |-> d, threw |-> TRUE]

----------------------------------------------------------------------------
(* SqlJsMemoryStore (sql.js): one table, no join tables *)

SqlJsMetaKeys ==
    {"timestamp", "sessionId", "speaker", "type", "confidence", "entityRefs",
     "name"}

SqlJs_extractMetadata(memory) ==
    [k \in (SqlJsMetaKeys \cap DOMAIN memory) |-> memory[k]]

SqlJs_save(d, memory, t) ==
    LET row == [id |-> memory.id,
                level |-> getLevel(memory),
                content |-> extractContent(memory),
                embedding |-> Null,
                metadata |-> SqlJs_extractMetadata(memory),
                created_at |-> t,
                updated_at |-> t,
                access_count |-> 0,
                last_accessed |-> t,
                retention_score |-> RetentionDefault]
    IN [db |-> [d EXCEPT !.memories = WithRow(@, row)], ok |-> TRUE]

SqlJs_rowToMemory(row) ==
    LET md == row.metadata
    IN  CASE row.level = "original" ->
               [id |-> row.id, content |-> row.content,
                timestamp |-> OrNum(md, "timestamp", row.created_at),
                sessionId |-> OrStr(md, "sessionId", "default"),
                speaker |-> OrStr(md, "speaker", "user")]
          [] row.level = "semantic" ->
               [id |-> row.id, content |-> row.content,
                type |-> OrStr(md, "type", "fact"),
                confidence |-> OrNum(md, "confidence", 50),
                sourceEpisodes |-> <<>>,
                entityRefs |-> OrArr(md, "entityRefs")]
          [] row.level = "theme" ->
               [id |-> row.id,
                name |-> OrText(md, "name", IdText(row.id)),
                description |-> row.content,
                semanticIds |-> <<>>,
                coherenceScore |-> 50,
                createdAt |-> row.created_at,
                updatedAt |-> row.created_at]
          [] OTHER ->
               [id |-> row.id, content |-> row.content]

SqlJs_get(d, id, level) ==
    IF ~(HasRow(d, id) /\ RowOf(d, id).level = level)
    THEN [db |-> d, val |-> Null]
    ELSE [db |-> d, val |-> Some(SqlJs_rowToMemory(RowOf(d, id)))]

SqlJs_delete(d, id) ==
    [db |-> [d EXCEPT !.memories = WithoutRow(@, id)], val |-> TRUE]

----------------------------------------------------------------------------
(* InMemoryStore: a Map per level, each in insertion order *)

EmptyMemories == [l \in Range(Levels) |-> <<>>]

MapHas(map, id) == \E i \in 1..Len(map) : map[i].id = id

MapGet(map, id) == map[CHOOSE i \in 1..Len(map) : map[i].id = id]

\* Map.prototype.set: an existing key keeps its place
MapSet(map, memory) ==
    IF MapHas(map, memory.id)
    THEN [i \in 1..Len(map) |-> IF map[i].id = memory.id THEN memory ELSE map[i]]
    ELSE Append(map, memory)

InMemory_save(mems, memory) ==
    [mems EXCEPT ![getLevel(memory)] = MapSet(@, memory)]

InMemory_get(mems, id, level) ==
    IF MapHas(mems[level], id) THEN Some(MapGet(mems[level], id)) ELSE Null

\* delete(id): the first level, in the order the constructor set them, that
\* has the id
InMemory_delete(mems, id) ==
    IF \E k \in 1..Len(Levels) : MapHas(mems[Levels[k]], id)
    THEN LET k == CHOOSE k \in 1..Len(Levels) :
                    /\ MapHas(mems[Levels[k]], id)
                    /\ \A h \in 1..(k - 1) : ~MapHas(mems[Levels[h]], id)
         IN [mems |-> [mems EXCEPT ![Levels[k]] =
                          SelectSeq(@, LAMBDA m : m.id # id)],
             val |-> TRUE]
    ELSE [mems |-> mems, val |-> FALSE]

----------------------------------------------------------------------------
(* The store contract exercised directly: save, get, delete, transaction   *)

OrigId(n) == <<"orig", n>>
EpId(n) == <<"ep", n>>
SemId(n) == <<"sem", n>>
ThemeId(n) == <<"theme", n>>

\* The records the store operations are called with: one of every level,
\* with scores 0 and non-zero, with and without the optional fields, and
\* with empty and non-empty id lists.
InOriginal ==
    [id |-> OrigId(1), content |-> <<"h", "i">>, timestamp |-> 1,
     sessionId |-> "s1", speaker |-> "agent"]
InEpisode ==
    [id |-> EpId(1), summary |-> <<"h", "i">>, originalIds |-> <<OrigId(1)>>,
     startTime |-> 1, endTime |-> 1, boundaryType |-> "time",
     coherenceScore |-> 0]
InSemantic ==
    [id |-> SemId(1), content |-> <<"h", "i">>, type |-> "preference",
     confidence |-> 90, sourceEpisodes |-> <<>>, entityRefs |-> << <<"h">> >>]
InSemanticZero ==
    [id |-> SemId(1), content |-> <<"h", "i">>, type |-> "fact",
     confidence |-> 0, sourceEpisodes |-> <<EpId(1)>>, entityRefs |-> <<>>,
     validityPeriod |-> [start |-> 1], conflictingWith |-> <<SemId(2)>>]
InTheme ==
    [id |-> ThemeId(1), name |-> <<"h">>, description |-> <<"h", "i">>,
     semanticIds |-> <<SemId(1)>>, coherenceScore |-> 80,
     createdAt |-> 1, updatedAt |-> 1]

StoreInputs == {InOriginal, InEpisode, InSemantic, InSemanticZero, InTheme}

StoreIds == {m.id : m \in StoreInputs}

SqlBackends == {"sqlite", "sqljs"}

\* the ids a store holds, whatever the backend
StoredIds ==
    IF backend \in SqlBackends
    THEN DOMAIN db.memories
    ELSE UNION {{memories[l][i].id : i \in 1..Len(memories[l])} : l \in Range(Levels)}

NoFiles ==
    [log |-> <<>>, episodes |-> EmptyObj, semantics |-> EmptyObj,
     themes |-> EmptyObj]
NoGraph == [entities |-> <<>>, relations |-> <<>>, entityNameIndex |-> EmptyObj]
\* new VectorIndex(store): no embedding provider, nothing indexed
NoIndex == [embeddingProvider |-> "null", cache |-> EmptyObj]
DEFAULT_RULES ==
    <<[name |-> "preference_inheritance", sourceType |-> "person",
       relationType |-> "prefers", targetType |-> "topic", confidence |-> 700],
      [name |-> "location_context", sourceType |-> "event",
       relationType |-> "located_in", targetType |-> "location",
       confidence |-> 800],
      [name |-> "temporal_sequence", sourceType |-> "event",
       relationType |-> "follows", targetType |-> "event", confidence |-> 900]>>

\* the module's DEFAULT_RULES array as loaded, and no MultiHopReasoning
\* instance yet; an instance's rules names the array it refers to
NoReasoning == [DEFAULT_RULES |-> DEFAULT_RULES, instances |-> <<>>]
\* new MemoryEngine(config): not initialized, store null, no store created
\* yet, no call made; pc lists the calls in the order they are made
NoEngine == [initialized |-> FALSE, store |-> <<>>, stores |-> 0, pc |-> <<>>]

InitStore ==
    /\ backend \in {"sqlite", "sqljs", "memory"}
    /\ foreign_keys \in (IF backend = "sqlite" THEN BOOLEAN ELSE {FALSE})
    /\ now = 1
    /\ db = EmptyDb
    /\ memories = EmptyMemories
    /\ files = NoFiles
    /\ graph = NoGraph
    /\ calls = 0
    /\ index = NoIndex
    /\ engine = NoEngine
    /\ reasoning = NoReasoning
    /\ ret = [op |-> "init"]

Tick ==
    /\ now < MaxTime
    /\ now' = now + 1
    /\ ret' = [op |-> "tick"]
    /\ UNCHANGED <<backend, foreign_keys, db, memories, files, graph, calls, index,
                 engine,
                   reasoning>>

StoreSave(m) ==
    /\ CASE backend = "sqlite" ->
              LET r == SQLite_save(db, foreign_keys, m, now)
              IN /\ db' = r.db
                 /\ ret' = [op |-> "save", arg |-> m, ok |-> r.ok]
                 /\ UNCHANGED memories
         [] backend = "sqljs" ->
              LET r == SqlJs_save(db, m, now)
              IN /\ db' = r.db
                 /\ ret' = [op |-> "save", arg |-> m, ok |-> r.ok]
                 /\ UNCHANGED memories
         [] backend = "memory" ->
              /\ memories' = InMemory_save(memories, m)
              /\ ret' = [op |-> "save", arg |-> m, ok |-> TRUE]
              /\ UNCHANGED db
    /\ UNCHANGED <<backend, foreign_keys, now, files, graph, calls, index,
                 engine,
                   reasoning>>

StoreGet(id, level) ==
    /\ CASE backend = "sqlite" ->
              LET r == SQLite_get(db, id, level, now)
              IN /\ HasRow(db, id) => RowOf(db, id).access_count < MaxAccess
                 /\ db' = r.db
                 /\ ret' = [op |-> "get", id |-> id, level |-> level, val |-> r.val]
                 /\ UNCHANGED memories
         [] backend = "sqljs" ->
              LET r == SqlJs_get(db, id, level)
              IN /\ db' = r.db
                 /\ ret' = [op |-> "get", id |-> id, level |-> level, val |-> r.val]
                 /\ UNCHANGED memories
         [] backend = "memory" ->
              /\ ret' = [op |-> "get", id |-> id, level |-> level,
                         val |-> InMemory_get(memories, id, level)]
              /\ UNCHANGED <<db, memories>>
    /\ UNCHANGED <<backend, foreign_keys, now, files, graph, calls, index,
                 engine,
                   reasoning>>

StoreDelete(id) ==
    /\ CASE backend = "sqlite" ->
              LET r == SQLite_delete(db, foreign_keys, id)
              IN /\ db' = r.db
                 /\ ret' = [op |-> "delete", id |-> id, val |-> r.val]
                 /\ UNCHANGED memories
         [] backend = "sqljs" ->
              LET r == SqlJs_delete(db, id)
              IN /\ db' = r.db
                 /\ ret' = [op |-> "delete", id |-> id, val |-> r.val]
                 /\ UNCHANGED memories
         [] backend = "memory" ->
              LET r == InMemory_delete(memories, id)
              IN /\ memories' = r.mems
                 /\ ret' = [op |-> "delete", id |-> id, val |-> r.val]
                 /\ UNCHANGED db
    /\ UNCHANGED <<backend, foreign_keys, now, files, graph, calls, index,
                 engine,
                   reasoning>>

\* the batches a transaction(fn) saves: at most MaxBatch records, distinct ids
TxInputs == {InOriginal, InEpisode, InTheme}

Batches ==
    {b \in UNION {[1..n -> TxInputs] : n \in 0..MaxBatch} :
        \A i, j \in 1..Len(b) : i # j => b[i].id # b[j].id}

StoreTransaction(batch, fnThrows) ==
    /\ backend = "sqlite"
    /\ LET r == SQLite_transaction(db, foreign_keys, batch, fnThrows, now)
       IN /\ db' = r.db
          /\ ret' = [op |-> "transaction", batch |-> batch,
                     fnThrows |-> fnThrows, threw |-> r.threw]
    /\ UNCHANGED <<backend, foreign_keys, now, memories, files, graph, calls, index,
                 engine,
                   reasoning>>

\* save, get and delete on each of the three backends
NextStore ==
    \/ Tick
    \/ \E m \in StoreInputs : StoreSave(m)
    \/ \E id \in StoreIds, l \in Range(Levels) : StoreGet(id, l)
    \/ \E id \in StoreIds : StoreDelete(id)

SpecStore == InitStore /\ [][NextStore]_vars

\* SQLiteMemoryStore with transactions among plain saves and deletes
InitTx == InitStore /\ backend = "sqlite"

NextTx ==
    \/ Tick
    \/ \E m \in TxInputs : StoreSave(m)
    \/ \E id \in StoreIds : StoreDelete(id)
    \/ \E b \in Batches, t \in BOOLEAN : StoreTransaction(b, t)

SpecTx == InitTx /\ [][NextTx]_vars

----------------------------------------------------------------------------
(* Claims about the store contract *)

LevelFields ==
    {"content", "summary", "description", "type", "confidence", "entityRefs",
     "sourceEpisodes", "originalIds", "semanticIds", "validityPeriod",
     "conflictingWith", "coherenceScore", "boundaryType", "speaker",
     "sessionId"}

LevelFieldsEqual(saved, got) ==
    \A f \in LevelFields : Field(saved, f) = Field(got, f)

\* C3: round trip. A get(record.id, level) that immediately follows a
\* successful save(record) returns a record, and that record equals the
\* saved one on every level-defining field, on every backend.
C3_RoundTrip ==
    [][ ( /\ ret.op = "save" /\ ret.ok
          /\ ret'.op = "get"
          /\ ret'.id = ret.arg.id
          /\ ret'.level = getLevel(ret.arg) )
        => ( /\ ret'.val # Null
             /\ LevelFieldsEqual(ret.arg, ret'.val[1]) ) ]_vars

\* C4: delete(id) returns true exactly when a record with that id was stored,
\* and the id is not stored afterwards (so a second delete returns false and
\* a get returns null), on every backend.
C4_DeleteIdempotent ==
    [][ ret'.op = "delete"
        => ( /\ ret'.val = (ret'.id \in StoredIds)
             /\ ret'.id \notin StoredIds' ) ]_vars

\* C5: transaction(fn) is all-or-nothing. When fn throws (by itself or
\* because one of its saves threw) the error reaches the caller and the
\* database, join rows included, is what it was before, so a get of a record
\* first saved inside fn returns null; when fn returns normally no error is
\* raised and a get of every record saved inside fn returns it.
C5_TransactionAtomic ==
    [][ ret'.op = "transaction"
        => LET b == ret'.batch
           IN /\ ret'.fnThrows => ret'.threw
              /\ ret'.threw =>
                    /\ db' = db
                    /\ \A i \in 1..Len(b) :
                          ~HasRow(db, b[i].id) =>
                             SQLite_get(db', b[i].id, getLevel(b[i]), now).val = Null
              /\ ~ret'.threw =>
                    \A i \in 1..Len(b) :
                       SQLite_get(db', b[i].id, getLevel(b[i]), now).val # Null ]_vars

\* C5 witness: fn saved at least one new record without error and then threw
C5_Witness ==
    /\ ret.op = "transaction" /\ ret.fnThrows /\ ret.threw
    /\ Len(ret.batch) > 0
    /\ ~HasRow(db, ret.batch[1].id)
    /\ SaveAll(db, foreign_keys, ret.batch, 1, now).ok

\* the access count and last-accessed time a store keeps for id, if it keeps any
StoredAccess(d, id) ==
    IF backend \in SqlBackends /\ HasRow(d, id)
    THEN Some([count |-> RowOf(d, id).access_count,
               last |-> RowOf(d, id).last_accessed])
    ELSE Null

\* C6: a get that finds a record adds one to that record's stored access
\* count and sets its last-accessed time to the current time; a get that
\* returns null changes no counter; on every backend.
C6_GetCountsAccess ==
    [][ ret'.op = "get"
        => IF ret'.val # Null
           THEN /\ StoredAccess(db, ret'.id) # Null
                /\ StoredAccess(db', ret'.id) =
                      Some([count |-> StoredAccess(db, ret'.id)[1].count + 1,
                            last |-> now])
           ELSE \A id \in StoreIds : StoredAccess(db', id) = StoredAccess(db, id) ]_vars

----------------------------------------------------------------------------
(* The write path: MemoryEngine.remember over the store it selected        *)
(* (InMemoryStore or SqlJsMemoryStore) and the plugin's memory_remember    *)
(* tool over its workspace files.                                          *)

MaxRemember == 2   \* remember calls in one behaviour
MaxEntities == 2   \* entity references of one call

\* the three stores a remember call can write to, as one value
Store == [db |-> db, memories |-> memories, files |-> files]

\* InMemoryStore.getContent
getContent(memory) ==
    IF "content" \in DOMAIN memory THEN memory.content
    ELSE IF "summary" \in DOMAIN memory THEN memory.summary
    ELSE IF "description" \in DOMAIN memory THEN memory.description
    ELSE <<>>

\* InMemoryStore.search(query, {level, limit}): the entries of the level's
\* Map, in insertion order, whose text contains the query, cut at limit
InMemory_search(mems, query, level, limit) ==
    LET hits == SelectSeq(mems[level],
                    LAMBDA m : includes(toLowerCase(getContent(m)), toLowerCase(query)))
    IN SubSeq(hits, 1, Min(Len(hits), limit))

\* SqlJsMemoryStore.search(query, {level, limit}): every list the SELECT can
\* return. Rows come by retention_score, highest first; rows that tie come in
\* an order SQL does not define.
SqlJs_search(d, query, level, limit) ==
    LET hit == {id \in DOMAIN d.memories :
                  /\ Like(d.memories[id].content, query)
                  /\ d.memories[id].level = level}
        n == Min(Cardinality(hit), limit)
        score(id) == d.memories[id].retention_score
    IN {[i \in 1..n |-> SqlJs_rowToMemory(d.memories[pick[i]])] :
          pick \in {p \in [1..n -> hit] :
                      /\ \A i, j \in 1..n : i < j =>
                            p[i] # p[j] /\ score(p[i]) >= score(p[j])
                      /\ \A id \in hit \ Range(p) :
                            \A i \in 1..n : score(p[i]) >= score(id)}}

\* `Theme-${Date.now()}` and `Theme for ${themeName}`
PlaceholderName(t) == <<"T", "h", "e", "m", "e", "-", ToString(t)>>
ThemeDescription(themeName) ==
    <<"T", "h", "e", "m", "e", " ", "f", "o", "r", " ">> \o themeName

\* the fall-through of both findOrCreateTheme functions: the Theme built when
\* no entity found one. entityRefs[0] || placeholder: undefined and "" are
\* falsy. Date.now() is read at t for the name, the id and both timestamps.
NewTheme(semantic, t) ==
    LET es == semantic.entityRefs
        themeName == IF Len(es) > 0 /\ es[1] # <<>> THEN es[1]
                     ELSE PlaceholderName(t)
    IN [id |-> ThemeId(t), name |-> themeName,
        description |-> ThemeDescription(themeName),
        semanticIds |-> <<semantic.id>>,
        coherenceScore |-> semantic.confidence,
        createdAt |-> t, updatedAt |-> t]

\* what store.search(entity, {level: "theme", limit: 1})[0] can be, as a set
\* (empty when the search returns no Theme)
Engine_searchTheme(S, entity) ==
    IF backend = "memory"
    THEN Range(InMemory_search(S.memories, entity, "theme", 1))
    ELSE UNION {Range(r) : r \in SqlJs_search(S.db, entity, "theme", 1)}

\* found[i] being what the lookup of the i-th entity finds: the least i that
\* finds a Theme, 0 when none does
FirstHit(found) ==
    IF \E i \in DOMAIN found : found[i] # {}
    THEN CHOOSE i \in DOMAIN found :
            /\ found[i] # {}
            /\ \A j \in 1..(i - 1) : found[j] = {}
    ELSE 0

\* MemoryEngine.findOrCreateTheme(semantic), Date.now() reading t: the
\* outcomes [theme, reused] it can have. A reused Theme is saved by the
\* function itself; a new one is left to the caller.
Engine_findOrCreateTheme(S, semantic, t) ==
    LET found == [k \in 1..Len(semantic.entityRefs) |->
                    Engine_searchTheme(S, semantic.entityRefs[k])]
        i == FirstHit(found)
    IN IF i > 0
       THEN {[theme |-> [th EXCEPT !.semanticIds = Append(@, semantic.id),
                                   !.updatedAt = t],
              reused |-> TRUE] : th \in found[i]}
       ELSE {[theme |-> NewTheme(semantic, t), reused |-> FALSE]}

\* this.store.save(memory), the store's own Date.now() reading t
Engine_save(S, memory, t) ==
    IF backend = "memory"
    THEN [S EXCEPT !.memories = InMemory_save(@, memory)]
    ELSE [S EXCEPT !.db = SqlJs_save(@, memory, t).db]

\* The tool's saveMemory(level, id, data): an Original is appended to the
\* daily log; every other level is the file <level>s/<id>.json, written
\* whole (JSON keeps every field of these records as it is).
saveMemory(S, data, t) ==
    LET level == getLevel(data)
    IN  CASE level = "original" ->
               [S EXCEPT !.files.log =
                    Append(@, [id |-> data.id, content |-> data.content])]
          [] level = "episode" ->
               [S EXCEPT !.files.episodes = WithRow(@, data)]
          [] level = "semantic" ->
               [S EXCEPT !.files.semantics = WithRow(@, data)]
          [] level = "theme" ->
               [S EXCEPT !.files.themes = WithRow(@, data)]

\* the first n of a call's writes, in order, each through the save of the
\* store in use
RECURSIVE SaveFirst(_, _, _, _)
SaveFirst(S, writes, n, t) ==
    IF n = 0 THEN S
    ELSE LET S1 == SaveFirst(S, writes, n - 1, t)
         IN IF backend = "files" THEN saveMemory(S1, writes[n], t)
            ELSE Engine_save(S1, writes[n], t)

\* MemoryEngine.remember(content, options). Date.now() reads timestamp at the
\* start of the call and t from findOrCreateTheme on. failAt = k > 0: the
\* k-th store write of the call, if it makes that many, throws.
\* The outcomes [store, ok, ids, reused] the call can have.
remember(S, content, options, timestamp, t, failAt) ==
    LET original == [id |-> OrigId(timestamp), content |-> content,
                     timestamp |-> timestamp, sessionId |-> "default",
                     speaker |-> "user"]
        episode == [id |-> EpId(timestamp), summary |-> substring(content, 100),
                    originalIds |-> <<original.id>>,
                    startTime |-> timestamp, endTime |-> timestamp,
                    boundaryType |-> "topic",
                    coherenceScore |-> OrNum(options, "confidence", 50)]
        semantic == [id |-> SemId(timestamp), content |-> content,
                     type |-> OrStr(options, "type", "fact"),
                     confidence |-> OrNum(options, "confidence", 50),
                     sourceEpisodes |-> <<episode.id>>,
                     entityRefs |-> OrArr(options, "entities")]
    IN {LET writes == (IF o.reused THEN <<o.theme>> ELSE <<>>)
                        \o <<original, episode, semantic, o.theme>>
            thrown == failAt \in 1..Len(writes)
            n == IF thrown THEN failAt - 1 ELSE Len(writes)
        IN [store |-> SaveFirst(S, writes, n, t),
            ok |-> ~thrown,
            ids |-> [original |-> original.id, episode |-> episode.id,
                     semantic |-> semantic.id, theme |-> o.theme.id],
            reused |-> o.reused]
        : o \in Engine_findOrCreateTheme(S, semantic, t)}

\* The tool's findTheme(keyword): the Themes it can return, as a set (empty
\* for null). readdirSync lists the files in the order of the file system.
findTheme(S, keyword) ==
    {S.files.themes[id] : id \in
        {k \in DOMAIN S.files.themes :
            includes(toLowerCase(S.files.themes[k].name), toLowerCase(keyword))}}

\* The tool's findOrCreateTheme(semantic); it saves the Theme in both cases
Tool_findOrCreateTheme(S, semantic, t) ==
    LET found == [k \in 1..Len(semantic.entityRefs) |->
                    findTheme(S, semantic.entityRefs[k])]
        i == FirstHit(found)
    IN IF i > 0
       THEN {[theme |-> [th EXCEPT !.semanticIds = Append(@, semantic.id),
                                   !.updatedAt = t],
              reused |-> TRUE] : th \in found[i]}
       ELSE {[theme |-> NewTheme(semantic, t), reused |-> FALSE]}

\* rememberTool.execute(params): the three saves, then findOrCreateTheme
rememberTool_execute(S, params, timestamp, t, failAt) ==
    LET original == [id |-> OrigId(timestamp), content |-> params.content,
                     timestamp |-> timestamp, sessionId |-> "default",
                     speaker |-> "user",
                     metadata |-> [importance |-> OrNum(params, "confidence", 50)]]
        episode == [id |-> EpId(timestamp),
                    summary |-> substring(params.content, 100),
                    originalIds |-> <<original.id>>,
                    startTime |-> timestamp, endTime |-> timestamp,
                    boundaryType |-> "topic",
                    coherenceScore |-> OrNum(params, "confidence", 50)]
        semantic == [id |-> SemId(timestamp), content |-> params.content,
                     type |-> params.type,
                     confidence |-> OrNum(params, "confidence", 50),
                     sourceEpisodes |-> <<episode.id>>,
                     entityRefs |-> OrArr(params, "entities")]
    IN {LET writes == <<original, episode, semantic, o.theme>>
            thrown == failAt \in 1..Len(writes)
            n == IF thrown THEN failAt - 1 ELSE Len(writes)
        IN [store |-> SaveFirst(S, writes, n, t),
            ok |-> ~thrown,
            ids |-> [original |-> original.id, episode |-> episode.id,
                     semantic |-> semantic.id, theme |-> o.theme.id],
            reused |-> o.reused]
        : o \in Tool_findOrCreateTheme(S, semantic, t)}

\* What a caller reads back, whichever store holds it
ThemeIds(S) ==
    CASE backend = "memory" ->
           {S.memories["theme"][i].id : i \in 1..Len(S.memories["theme"])}
      [] backend = "sqljs" ->
           {id \in DOMAIN S.db.memories : S.db.memories[id].level = "theme"}
      [] OTHER -> DOMAIN S.files.themes

\* the Theme of id as get(id, "theme") / the Theme's file returns it
ThemeRead(S, id) ==
    CASE backend = "memory" -> InMemory_get(S.memories, id, "theme")[1]
      [] backend = "sqljs" -> SqlJs_get(S.db, id, "theme").val[1]
      [] OTHER -> S.files.themes[id]

\* how many records of a level the store holds
CountLevel(S, level) ==
    CASE backend = "memory" -> Len(S.memories[level])
      [] backend = "sqljs" ->
           Cardinality({id \in DOMAIN S.db.memories :
                           S.db.memories[id].level = level})
      [] OTHER ->
           CASE level = "original" -> Len(S.files.log)
             [] level = "episode" -> Cardinality(DOMAIN S.files.episodes)
             [] level = "semantic" -> Cardinality(DOMAIN S.files.semantics)
             [] level = "theme" -> Cardinality(DOMAIN S.files.themes)

\* the entity references the calls are made with: a plain name, a name in
\* upper case, the LIKE wildcard
EntityNames == {<<"a">>, <<"E">>, <<"_">>}

\* lists of at most MaxEntities distinct names
EntityLists ==
    {es \in UNION {[1..n -> EntityNames] : n \in 0..MaxEntities} :
        \A i, j \in 1..Len(es) : i # j => es[i] # es[j]}

\* options of MemoryEngine.remember: none at all, or entities with a
\* confidence of 0 or 0.9
RememberOptions ==
    {EmptyObj} \cup
    {[confidence |-> c, entities |-> es] : c \in {0, 90}, es \in EntityLists}

\* params of the memory_remember tool: content and type are required
RememberParams ==
    {[content |-> <<"h", "i">>, type |-> "fact"] @@ o : o \in RememberOptions}

InitEngine ==
    /\ backend \in {"memory", "sqljs", "files"}
    /\ foreign_keys = FALSE
    /\ now = 1
    /\ db = EmptyDb
    /\ memories = EmptyMemories
    /\ files = NoFiles
    /\ graph = NoGraph
    /\ calls = 0
    /\ index = NoIndex
    /\ engine = NoEngine
    /\ reasoning = NoReasoning
    /\ ret = [op |-> "init"]

\* engine.remember(content, options); the clock reads now at the start of
\* the call and t from the Theme lookup on
EngineRemember(options, t, failAt) ==
    /\ backend \in {"memory", "sqljs"}
    /\ calls < MaxRemember
    /\ calls' = calls + 1
    /\ t >= now
    /\ backend = "memory" => failAt = 0
    /\ \E r \in remember(Store, <<"h", "i">>, options, now, t, failAt) :
          /\ db' = r.store.db
          /\ memories' = r.store.memories
          /\ ret' = [op |-> "remember", ok |-> r.ok, ids |-> r.ids,
                     reused |-> r.reused,
                     entities |-> OrArr(options, "entities")]
    /\ now' = t
    /\ UNCHANGED <<backend, foreign_keys, files, graph, index,
                 engine,
                   reasoning>>

\* the memory_remember tool
ToolRemember(params, t, failAt) ==
    /\ backend = "files"
    /\ calls < MaxRemember
    /\ calls' = calls + 1
    /\ t >= now
    /\ \E r \in rememberTool_execute(Store, params, now, t, failAt) :
          /\ files' = r.store.files
          /\ ret' = [op |-> "remember", ok |-> r.ok, ids |-> r.ids,
                     reused |-> r.reused,
                     entities |-> OrArr(params, "entities")]
    /\ now' = t
    /\ UNCHANGED <<backend, foreign_keys, db, memories, graph, index,
                 engine,
                   reasoning>>

NextEngine ==
    \/ Tick
    \/ \E o \in RememberOptions, t \in 1..MaxTime, k \in 0..5 :
          EngineRemember(o, t, k)
    \/ \E p \in RememberParams, t \in 1..MaxTime, k \in 0..4 :
          ToolRemember(p, t, k)

SpecEngine == InitEngine /\ [][NextEngine]_vars

\* remember and delete on the engine's InMemoryStore
InitIntegrity == InitEngine /\ backend = "memory"

MemoryIds ==
    UNION {{memories[l][i].id : i \in 1..Len(memories[l])} : l \in Range(Levels)}

NextIntegrity ==
    \/ Tick
    \/ \E o \in RememberOptions, t \in 1..MaxTime : EngineRemember(o, t, 0)
    \/ \E id \in MemoryIds : StoreDelete(id)

SpecIntegrity == InitIntegrity /\ [][NextIntegrity]_vars

\* remember with confidences inside and outside [0, 1], in hundredths
Confidences == {-10, 0, 50, 100, 150}

ScoreOptions ==
    {[confidence |-> c, entities |-> es] :
        c \in Confidences, es \in {<<>>, << <<"a">> >>}}

InitScores == InitEngine /\ backend \in {"memory", "sqljs"}

NextScores ==
    \E o \in ScoreOptions, t \in 1..MaxTime : EngineRemember(o, t, 0)

SpecScores == InitScores /\ [][NextScores]_vars

\* the records the engine's store holds, as its get returns them
StoredRecords ==
    IF backend = "memory"
    THEN UNION {Range(memories[l]) : l \in Range(Levels)}
    ELSE {SqlJs_rowToMemory(db.memories[id]) : id \in DOMAIN db.memories}

\* remember calls on one engine with the default storage, where createStore
\* ends in SqlJsMemoryStore. A call is suspended at an await or done:
\*   "createStore"  inside init, at `await this.createStore()`
\*   "body"         at `await this.ensureInit()`, init being over
\*   "done"         returned, with the ids it reported
\* Between two awaits a call runs alone. The order in which the createStore
\* promises of two calls settle is the order in which sql.js finishes
\* loading for each, so the calls resume in any order.
MaxCalls == 2   \* remember calls made on the engine

InitRace ==
    /\ backend = "sqljs"
    /\ foreign_keys = FALSE
    /\ now = 1
    /\ db = EmptyDb
    /\ memories = EmptyMemories
    /\ files = NoFiles
    /\ graph = NoGraph
    /\ calls = 0
    /\ index = NoIndex
    /\ engine = NoEngine
    /\ reasoning = NoReasoning
    /\ ret = [op |-> "init"]

\* remember(content) up to its first suspension: ensureInit, and init up to
\* `await this.createStore()` when the engine is not initialized
CallRemember(options) ==
    /\ Len(engine.pc) < MaxCalls
    /\ engine' = [engine EXCEPT !.pc =
                    Append(@, IF engine.initialized
                              THEN [at |-> "body", viaInit |-> FALSE,
                                    options |-> options]
                              ELSE [at |-> "createStore", viaInit |-> TRUE,
                                    options |-> options])]
    /\ ret' = [op |-> "call", call |-> Len(engine.pc) + 1]
    /\ UNCHANGED <<backend, foreign_keys, now, db, memories, files, graph, calls,
                   index,
                   reasoning>>

\* createStore of call i settles with a new, empty store and init goes on:
\* this.store = <the new store>; this.initialized = true
InitResume(i) ==
    /\ i \in 1..Len(engine.pc)
    /\ engine.pc[i].at = "createStore"
    /\ engine' = [engine EXCEPT !.initialized = TRUE,
                                !.store = <<engine.stores + 1>>,
                                !.stores = @ + 1,
                                !.pc[i].at = "body"]
    /\ db' = EmptyDb
    /\ memories' = EmptyMemories
    /\ ret' = [op |-> "init", call |-> i]
    /\ UNCHANGED <<backend, foreign_keys, now, files, graph, calls, index,
                   reasoning>>

\* the rest of remember of call i, from `const timestamp = Date.now()` on,
\* on the store the engine has now; the content is the call's number
RememberBody(i) ==
    /\ i \in 1..Len(engine.pc)
    /\ engine.pc[i].at = "body"
    /\ \E r \in remember(Store, <<ToString(i)>>, engine.pc[i].options, now, now,
                          0) :
          /\ db' = r.store.db
          /\ memories' = r.store.memories
          /\ engine' = [engine EXCEPT
                           !.pc[i] = [at |-> "done", viaInit |-> @.viaInit,
                                      options |-> @.options,
                                      ids |-> r.ids, store |-> engine.store]]
          /\ ret' = [op |-> "remember", call |-> i, ok |-> r.ok, ids |-> r.ids]
    /\ UNCHANGED <<backend, foreign_keys, now, files, graph, calls, index,
                   reasoning>>

NextRace ==
    \/ Tick
    \/ \E o \in {EmptyObj, [entities |-> << <<"a">> >>]} : CallRemember(o)
    \/ \E i \in 1..MaxCalls : InitResume(i)
    \/ \E i \in 1..MaxCalls : RememberBody(i)

SpecRace == InitRace /\ [][NextRace]_vars

\* Records saved again and again with changed id lists, in a database that
\* may or may not enforce foreign keys: an Original, an Episode, two
\* Semantics and a Theme. OrigId(2) and EpId(2) are never stored.
JoinLists(a, b) == {<<>>, <<a>>, <<b>>, <<a, b>>, <<b, a>>, <<a, a>>}

JoinInputs ==
    {InOriginal, InSemantic, [InSemantic EXCEPT !.id = SemId(2)]}
    \cup {[InEpisode EXCEPT !.originalIds = l] :
             l \in {<<>>, <<OrigId(1)>>, <<OrigId(1), OrigId(2)>>}}
    \cup {[InSemantic EXCEPT !.sourceEpisodes = l] :
             l \in {<<EpId(1)>>, <<EpId(2), EpId(1)>>}}
    \cup {[InTheme EXCEPT !.semanticIds = l] : l \in JoinLists(SemId(1), SemId(2))}

\* the id list of a record, whatever its level
ListOf(memory) ==
    CASE "originalIds" \in DOMAIN memory -> memory.originalIds
      [] "sourceEpisodes" \in DOMAIN memory -> memory.sourceEpisodes
      [] "semanticIds" \in DOMAIN memory -> memory.semanticIds
      [] OTHER -> <<>>

InitJoin ==
    /\ backend = "sqlite"
    /\ foreign_keys \in BOOLEAN
    /\ now = 1
    /\ db = EmptyDb
    /\ memories = EmptyMemories
    /\ files = NoFiles
    /\ graph = NoGraph
    /\ calls = 0
    /\ index = NoIndex
    /\ engine = NoEngine
    /\ reasoning = NoReasoning
    /\ ret = [op |-> "init"]

\* store.save(memory); before is the list the stored record of that id had
JoinSave(memory) ==
    /\ LET r == SQLite_save(db, foreign_keys, memory, now)
       IN /\ db' = r.db
          /\ ret' = [op |-> "save", arg |-> memory, ok |-> r.ok,
                     before |-> IF HasRow(db, memory.id)
                                THEN Some(ListOf(SQLite_rowToMemory(
                                              db, RowOf(db, memory.id))))
                                ELSE Null]
    /\ UNCHANGED <<backend, foreign_keys, now, memories, files, graph, calls,
                   index, engine,
                   reasoning>>

NextJoin ==
    \/ \E m \in JoinInputs : JoinSave(m)
    \/ \E m \in JoinInputs : StoreDelete(m.id)

SpecJoin == InitJoin /\ [][NextJoin]_vars

----------------------------------------------------------------------------
(* Claims about the write path *)

\* C1: every remember call that returns leaves the store with exactly one
\* more Original, one more Episode and one more Semantic than before, and
\* touches exactly one Theme: the Theme the call names is stored afterwards,
\* it is the only Theme that may be new, and every other Theme reads as it
\* did before. This holds for any sequence of calls, two calls in the same
\* clock millisecond included.
C1_RememberAddsOneOfEach ==
    [][ (ret'.op = "remember" /\ ret'.ok)
        => LET T == ret'.ids.theme
           IN /\ CountLevel(Store', "original") = CountLevel(Store, "original") + 1
              /\ CountLevel(Store', "episode") = CountLevel(Store, "episode") + 1
              /\ CountLevel(Store', "semantic") = CountLevel(Store, "semantic") + 1
              /\ ThemeIds(Store') = ThemeIds(Store) \cup {T}
              /\ \A id \in ThemeIds(Store) \ {T} :
                    ThemeRead(Store', id) = ThemeRead(Store, id) ]_vars

\* C2: a remember call one of whose store writes throws leaves nothing
\* behind: the store reads afterwards as it did before the call (no
\* Original, Episode or Semantic of the call, no new Theme, no Theme
\* modified).
C2_RememberAllOrNothing ==
    [][ (ret'.op = "remember" /\ ~ret'.ok) => Store' = Store ]_vars

\* the Themes stored in S whose name or description contains the entity,
\* case-insensitively
ThemesContaining(S, entity) ==
    {id \in ThemeIds(S) :
        \/ includes(toLowerCase(ThemeRead(S, id).name), toLowerCase(entity))
        \/ includes(toLowerCase(ThemeRead(S, id).description), toLowerCase(entity))}

\* C7: theme assignment. With the entities tried in list order, the new
\* Semantic joins an existing Theme whose name or description contains the
\* first entity that any existing Theme contains; a new Theme is created
\* only when no existing Theme contains any entity, and it is named after
\* the first entity, or after a generated placeholder when the list is
\* empty.
C7_ThemeAssignment ==
    [][ (ret'.op = "remember" /\ ret'.ok)
        => LET es == ret'.entities
               T == ret'.ids.theme
               hit == {i \in 1..Len(es) : ThemesContaining(Store, es[i]) # {}}
           IN IF hit # {}
              THEN /\ ret'.reused
                   /\ T \in ThemesContaining(Store,
                              es[CHOOSE i \in hit : \A j \in hit : i <= j])
              ELSE /\ ~ret'.reused
                   /\ T \in ThemeIds(Store')
                   /\ es # <<>> => ThemeRead(Store', T).name = es[1]
                   /\ es = <<>> =>
                         \E t \in 1..MaxTime :
                            ThemeRead(Store', T).name = PlaceholderName(t) ]_vars

\* s is t cut short
IsPrefix(s, t) == Len(s) <= Len(t) /\ \A i \in 1..Len(s) : s[i] = t[i]

\* C8: semanticIds of a Theme is append-only on the write path. After a
\* remember call every Theme stored before is still stored and reads with
\* the semantic ids it read with before, in place, at the front; the Theme
\* the call reused reads with exactly the new Semantic's id added after
\* them, and the Theme the call created reads with the new Semantic's id.
C8_SemanticIdsAppendOnly ==
    [][ (ret'.op = "remember" /\ ret'.ok)
        => LET T == ret'.ids.theme
           IN /\ \A id \in ThemeIds(Store) :
                    /\ id \in ThemeIds(Store')
                    /\ IsPrefix(ThemeRead(Store, id).semanticIds,
                                ThemeRead(Store', id).semanticIds)
              /\ T \in ThemeIds(Store')
              /\ ret'.reused =>
                    ThemeRead(Store', T).semanticIds =
                       Append(ThemeRead(Store, T).semanticIds, ret'.ids.semantic)
              /\ ~ret'.reused =>
                    ret'.ids.semantic \in Range(ThemeRead(Store', T).semanticIds) ]_vars

----------------------------------------------------------------------------
(* ForgettingMechanism over SQLiteMemoryStore. In this part the clock      *)
(* counts whole days, so currentTime - createdAt is the age in days.       *)
(* Retention is in millionths, importance and thresholds in thousandths,   *)
(* their product in units of 10^-9.                                        *)

MIN_RETENTION == 100000
ARCHIVE_THRESHOLD == 300
DELETE_THRESHOLD == 100

MaxAge == 2   \* time passes while the clock reads less than this many days

\* the clock of the forgetting runs counts hours
DayHours == 24

\* Math.exp(-k / 24) in millionths for k = 1..56
ExpTable ==
    <<
      959189, 920044, 882497, 846482, 811936, 778801, 747018, 716531,
      687289, 659241, 632337, 606531, 581778, 558035, 535261, 513417,
      492464, 472367, 453089, 434598, 416862, 399850, 383532, 367879,
      352866, 338465, 324652, 311403, 298695, 286505, 274812, 263597,
      252840, 242521, 232624, 223130, 214024, 205290, 196912, 188876,
      181167, 173774, 166682, 159880, 153355, 147096, 141093, 135335,
      129812, 124514, 119433, 114559, 109884, 105399, 101098, 96972
    >>

\* Math.exp(-n / d) in millionths, n / d taken down to a 24th; from 56 / 24
\* on the value is below MIN_RETENTION and e^(-56/24) stands for it
ExpMicro(n, d) ==
    LET k == (24 * n) \div d
    IN IF k <= 0 THEN 1000000 ELSE ExpTable[Min(k, Len(ExpTable))]

\* Math.log10(k) in thousandths, for the small k that occur
Log10Milli(k) ==
    CASE k <= 1 -> 0
      [] k = 2 -> 301
      [] k = 3 -> 477
      [] OTHER -> 602

\* SQLiteMemoryStore.search(query, {limit}) with a limit above the number of
\* rows: the records of the rows WHERE content LIKE '%query%', as a set
SQLite_search(d, query) ==
    {SQLite_rowToMemory(d, d.memories[id]) :
        id \in {k \in DOMAIN d.memories : Like(d.memories[k].content, query)}}

getAccessCount(id) == 0

\* calculateRetention(memory, currentTime); stability = 1 + accessCount * 0.5
\* enters as the fraction (2 + accessCount) / 2
calculateRetention(memory, currentTime) ==
    LET createdAt == OrNum(memory, "createdAt", OrNum(memory, "timestamp", currentTime))
        ageInHours == currentTime - createdAt
        accessCount == getAccessCount(memory.id)
        retention == ExpMicro(2 * ageInHours, (2 + accessCount) * DayHours)
    IN Max(MIN_RETENTION, Min(1000000, retention))

typeWeights(type) ==
    CASE type = "fact" -> 300
      [] type = "preference" -> 250
      [] type = "goal" -> 350
      [] type = "constraint" -> 300
      [] type = "event" -> 200
      [] OTHER -> 200

calculateImportance(memory) ==
    LET f1 == IF "confidence" \in DOMAIN memory THEN memory.confidence * 2 ELSE 0
        f2 == IF "type" \in DOMAIN memory THEN typeWeights(memory.type) ELSE 0
        f3 == IF "entityRefs" \in DOMAIN memory
              THEN Min(200, Len(memory.entityRefs) * 50) ELSE 0
        f4 == IF "semanticIds" \in DOMAIN memory
              THEN Min(150, Len(memory.semanticIds) * 30) ELSE 0
    IN Min(1000, 500 + f1 + f2 + f3 + f4)

\* getMemoryScores(): the scores of every record search("") returns
getMemoryScores(d, currentTime) ==
    {[id |-> memory.id,
      retentionScore |-> calculateRetention(memory, currentTime),
      importanceScore |-> calculateImportance(memory),
      accessFrequency |-> getAccessCount(memory.id)] :
        memory \in SQLite_search(d, <<>>)}

\* retentionScore * importanceScore * (1 + log10(1 + accessFrequency) / 2),
\* in units of 10^-9
combinedScore(score) ==
    ((score.retentionScore * score.importanceScore) \div 1000)
        * (1000 + Log10Milli(1 + score.accessFrequency) \div 2)

\* updateRetentionScore(id, newScore): the body is empty
updateRetentionScore(d, id, newScore) == d

\* the loop of archiveLowValue over the scores (what it does to one record
\* does not depend on the others, so any order gives the same database)
RECURSIVE ArchiveLoop(_, _, _, _)
ArchiveLoop(d, fk, scores, threshold) ==
    IF scores = {} THEN d
    ELSE LET score == CHOOSE sc \in scores : TRUE
             d1 == IF combinedScore(score) < DELETE_THRESHOLD * 1000000
                   THEN SQLite_delete(d, fk, score.id).db
                   ELSE IF combinedScore(score) < threshold * 1000000
                   THEN updateRetentionScore(d, score.id, score.retentionScore \div 2)
                   ELSE d
         IN ArchiveLoop(d1, fk, scores \ {score}, threshold)

\* archiveLowValue(threshold) at clock reading t: [db, val]
archiveLowValue(d, fk, threshold, t) ==
    LET scores == getMemoryScores(d, t)
        toDelete == {sc \in scores : combinedScore(sc) < DELETE_THRESHOLD * 1000000}
        toArchive == {sc \in scores \ toDelete :
                         combinedScore(sc) < threshold * 1000000}
    IN [db |-> ArchiveLoop(d, fk, scores, threshold),
        val |-> [archived |-> Cardinality(toArchive),
                 deleted |-> Cardinality(toDelete),
                 retained |-> Cardinality(scores \ (toDelete \cup toArchive))]]

\* The records the forgetting runs are made over: an Original, a Semantic
\* with the defaults of remember (a fact of confidence 0.5, no entities), a
\* preference of confidence 0.9 with one entity, a Theme, and a Theme that
\* lists the default fact
InDefaultFact ==
    [id |-> SemId(2), content |-> <<"h", "i">>, type |-> "fact",
     confidence |-> 50, sourceEpisodes |-> <<>>, entityRefs |-> <<>>]
InNewTheme ==
    [id |-> ThemeId(2), name |-> <<"h">>, description |-> <<"h", "i">>,
     semanticIds |-> <<>>, coherenceScore |-> 50]

InLinkedTheme ==
    [id |-> ThemeId(3), name |-> <<"h">>, description |-> <<"h", "i">>,
     semanticIds |-> <<InDefaultFact.id>>, coherenceScore |-> 50]

ForgetInputs == {InOriginal, InDefaultFact, InSemantic, InNewTheme, InLinkedTheme}

\* thresholds a caller passes: below the delete threshold, the default, 1
Thresholds == {50, ARCHIVE_THRESHOLD, 1000}

\* time passes: 39 hours, a day, or a year
AgeSteps == {39, DayHours, 365 * DayHours}

InitForget == InitStore /\ backend = "sqlite"

Sleep(hours) ==
    /\ now < MaxAge * DayHours
    /\ now' = now + hours
    /\ ret' = [op |-> "sleep"]
    /\ UNCHANGED <<backend, foreign_keys, db, memories, files, graph, calls, index,
                 engine,
                   reasoning>>

ArchiveLowValue(threshold) ==
    /\ LET r == archiveLowValue(db, foreign_keys, threshold, now)
       IN /\ db' = r.db
          /\ ret' = [op |-> "archiveLowValue", threshold |-> threshold,
                     val |-> r.val]
    /\ UNCHANGED <<backend, foreign_keys, now, memories, files, graph, calls, index,
                 engine,
                   reasoning>>

NextForget ==
    \/ \E hours \in AgeSteps : Sleep(hours)
    \/ \E m \in ForgetInputs : StoreSave(m)
    \/ \E th \in Thresholds : ArchiveLowValue(th)

SpecForget == InitForget /\ [][NextForget]_vars

\* Two Semantics saved, read through get and scored as time passes
GetMemoryScores ==
    /\ ret' = [op |-> "getMemoryScores", val |-> getMemoryScores(db, now)]
    /\ UNCHANGED <<backend, foreign_keys, now, db, memories, files, graph, calls,
                   index, engine,
                   reasoning>>

NextRetention ==
    \/ \E hours \in AgeSteps : Sleep(hours)
    \/ \E m \in {InDefaultFact, InSemantic} : StoreSave(m)
    \/ \E m \in {InDefaultFact, InSemantic} : StoreGet(m.id, "semantic")
    \/ GetMemoryScores

SpecRetention == InitForget /\ [][NextRetention]_vars

\* C9: archiveLowValue(threshold) puts every stored record in exactly one of
\* three outcomes by its combined score: below 0.1 the record is no longer
\* stored; else below threshold its stored retention score is half of what
\* it was; otherwise the record is unchanged. archived + deleted + retained
\* is the number of records scanned, and a default fact created 365 days
\* ago is deleted, not archived.
C9_ArchiveOutcomes ==
    [][ ret'.op = "archiveLowValue"
        => /\ \A sc \in getMemoryScores(db, now) :
                 IF combinedScore(sc) < DELETE_THRESHOLD * 1000000
                 THEN ~HasRow(db', sc.id)
                 ELSE IF combinedScore(sc) < ret'.threshold * 1000000
                 THEN /\ HasRow(db', sc.id)
                      /\ 2 * RowOf(db', sc.id).retention_score =
                            RowOf(db, sc.id).retention_score
                 ELSE /\ HasRow(db', sc.id)
                      /\ RowOf(db', sc.id) = RowOf(db, sc.id)
           /\ ret'.val.archived + ret'.val.deleted + ret'.val.retained =
                 Cardinality(DOMAIN db.memories)
           /\ (/\ HasRow(db, InDefaultFact.id)
               /\ now - RowOf(db, InDefaultFact.id).created_at = 365 * DayHours)
              => ~HasRow(db', InDefaultFact.id) ]_vars

----------------------------------------------------------------------------
(* KnowledgeGraph: entities and relations are Maps in insertion order,     *)
(* entityNameIndex maps a normalised name to an entity id. An entity id    *)
(* `entity-${Date.now()}-${random}` is the pair <<"entity", n>> with n     *)
(* fresh; a relation id `rel-${source}-${target}-${type}` is the tuple of  *)
(* its parts. Weights are in tenths.                                       *)

MaxUpdates == 2   \* update calls in one behaviour
MaxHops == 2      \* findPath is called with maxHops in 0..MaxHops

\* String.prototype.trim for the blank
RECURSIVE trim(_)
trim(s) ==
    IF s # <<>> /\ Head(s) = " " THEN trim(Tail(s))
    ELSE IF s # <<>> /\ s[Len(s)] = " " THEN trim(SubSeq(s, 1, Len(s) - 1))
    ELSE s

\* context.includes(k) for one of the keywords
IncludesAny(context, keywords) == \E k \in keywords : includes(context, k)

inferEntityType(name, context) ==
    LET lowerContext == toLowerCase(context)
    IN  IF IncludesAny(lowerContext, {<<"u","s","e","r">>, <<"h","e"," ">>,
                                      <<"s","h","e"," ">>})
        THEN "person"
        ELSE IF IncludesAny(lowerContext,
                    {<<"c","o","m","p","a","n","y">>, <<"t","e","a","m">>,
                     <<"o","r","g","a","n","i","z","a","t","i","o","n">>})
        THEN "organization"
        ELSE IF IncludesAny(lowerContext,
                    {<<"l","o","c","a","t","e","d">>, <<"a","t"," ">>, <<"i","n"," ">>})
        THEN "location"
        ELSE IF IncludesAny(lowerContext,
                    {<<"h","a","p","p","e","n","e","d">>,
                     <<"o","c","c","u","r","r","e","d">>, <<"e","v","e","n","t">>})
        THEN "event"
        ELSE IF IncludesAny(lowerContext,
                    {<<"p","r","e","f","e","r">>, <<"l","i","k","e">>,
                     <<"w","a","n","t">>})
        THEN "topic"
        ELSE "concept"

inferRelationType(memory) ==
    LET content == toLowerCase(memory.content)
    IN  IF IncludesAny(content, {<<"p","r","e","f","e","r">>, <<"l","i","k","e">>})
        THEN "prefers"
        ELSE IF IncludesAny(content, {<<"d","i","s","l","i","k","e">>,
                                      <<"h","a","t","e">>})
        THEN "dislikes"
        ELSE IF IncludesAny(content, {<<"p","a","r","t"," ","o","f">>,
                                      <<"b","e","l","o","n","g","s"," ","t","o">>})
        THEN "part_of"
        ELSE IF IncludesAny(content, {<<"l","o","c","a","t","e","d">>, <<"i","n"," ">>})
        THEN "located_in"
        ELSE IF IncludesAny(content, {<<"c","a","u","s","e","d">>,
                                      <<"b","e","c","a","u","s","e">>})
        THEN "caused_by"
        ELSE "related_to"

\* extractEntities(memory), Date.now() reading t: the loop from the i-th
\* entity reference on
RECURSIVE extractEntities(_, _, _, _)
extractEntities(g, memory, i, t) ==
    LET entityRefs == OrArr(memory, "entityRefs")
    IN  IF i > Len(entityRefs) THEN g
        ELSE LET name == entityRefs[i]
                 normalizedName == trim(toLowerCase(name))
                 g1 == IF normalizedName \in DOMAIN g.entityNameIndex
                       THEN LET entityId == g.entityNameIndex[normalizedName]
                            IN [g EXCEPT !.entities =
                                  [k \in 1..Len(@) |->
                                     IF @[k].id = entityId
                                     THEN [@[k] EXCEPT !.lastSeen = t,
                                                       !.mentionCount = @ + 1]
                                     ELSE @[k]]]
                       ELSE LET entity ==
                                  [id |-> <<"entity", Len(g.entities) + 1>>,
                                   name |-> name,
                                   type |-> inferEntityType(name, memory.content),
                                   aliases |-> <<normalizedName>>,
                                   firstSeen |-> t, lastSeen |-> t,
                                   mentionCount |-> 1]
                            IN [g EXCEPT
                                  !.entities = Append(@, entity),
                                  !.entityNameIndex =
                                     [k \in DOMAIN @ \cup {normalizedName} |->
                                        IF k = normalizedName THEN entity.id
                                        ELSE @[k]]]
             IN extractEntities(g1, memory, i + 1, t)

addRelation(g, sourceId, targetId, type, evidence, t) ==
    LET relationId == <<"rel", sourceId, targetId, type>>
    IN  IF \E k \in 1..Len(g.relations) : g.relations[k].id = relationId
        THEN [g EXCEPT !.relations =
                [k \in 1..Len(@) |->
                   IF @[k].id = relationId
                   THEN [@[k] EXCEPT
                           !.weight = @ + 1,
                           !.evidence = IF evidence \in Range(@) THEN @
                                        ELSE Append(@, evidence)]
                   ELSE @[k]]]
        ELSE [g EXCEPT !.relations =
                Append(@, [id |-> relationId, source |-> sourceId,
                           target |-> targetId, type |-> type, weight |-> 10,
                           evidence |-> <<evidence>>, createdAt |-> t])]

\* extractRelations(memory): the two nested loops, from the pair (i, j) on
RECURSIVE extractRelations(_, _, _, _, _)
extractRelations(g, memory, i, j, t) ==
    LET entityRefs == OrArr(memory, "entityRefs")
    IN  IF Len(entityRefs) < 2 \/ i > Len(entityRefs) THEN g
        ELSE IF j > Len(entityRefs)
        THEN extractRelations(g, memory, i + 1, i + 2, t)
        ELSE LET sourceName == trim(toLowerCase(entityRefs[i]))
                 targetName == trim(toLowerCase(entityRefs[j]))
                 g1 == IF /\ sourceName \in DOMAIN g.entityNameIndex
                          /\ targetName \in DOMAIN g.entityNameIndex
                       THEN addRelation(g, g.entityNameIndex[sourceName],
                                        g.entityNameIndex[targetName],
                                        inferRelationType(memory), memory.id, t)
                       ELSE g
             IN extractRelations(g1, memory, i, j + 1, t)

\* update(memory)
update(g, memory, t) ==
    extractRelations(extractEntities(g, memory, 1, t), memory, 1, 2, t)

getEntity(g, name) ==
    LET normalizedName == trim(toLowerCase(name))
    IN  IF normalizedName \in DOMAIN g.entityNameIndex
        THEN LET id == g.entityNameIndex[normalizedName]
             IN SelectSeq(g.entities, LAMBDA e : e.id = id)
        ELSE Null

getEntityRelations(g, entityId) ==
    SelectSeq(g.relations, LAMBDA r : r.source = entityId \/ r.target = entityId)

\* sum of the weights of a list of edges
RECURSIVE SumWeight(_)
SumWeight(edges) ==
    IF edges = <<>> THEN 0 ELSE Head(edges).weight + SumWeight(Tail(edges))

\* the while loop of findPath: queue of {entityId, path, edges}, visited set
RECURSIVE SearchLoop(_, _, _, _, _)
SearchLoop(g, targetId, maxHops, queue, visited) ==
    IF queue = <<>> THEN Null
    ELSE LET current == Head(queue)
             rest == Tail(queue)
         IN IF current.entityId = targetId
            THEN Some([nodes |-> [k \in 1..Len(current.path) |->
                                    SelectSeq(g.entities,
                                        LAMBDA e : e.id = current.path[k])[1]],
                       edges |-> current.edges,
                       totalWeight |-> SumWeight(current.edges)])
            ELSE IF Len(current.path) > maxHops
            THEN SearchLoop(g, targetId, maxHops, rest, visited)
            ELSE IF current.entityId \in visited
            THEN SearchLoop(g, targetId, maxHops, rest, visited)
            ELSE LET visited1 == visited \cup {current.entityId}
                     relations == getEntityRelations(g, current.entityId)
                     next(r) == IF r.source = current.entityId THEN r.target
                                ELSE r.source
                     fresh == SelectSeq(relations, LAMBDA r : next(r) \notin visited1)
                     pushed == [k \in 1..Len(fresh) |->
                                  [entityId |-> next(fresh[k]),
                                   path |-> Append(current.path, next(fresh[k])),
                                   edges |-> Append(current.edges, fresh[k])]]
                 IN SearchLoop(g, targetId, maxHops, rest \o pushed, visited1)

\* a search that never gives up on a path for its length
findPath_NoHopBound(g, sourceName, targetName, maxHops) ==
    LET source == getEntity(g, sourceName)
        target == getEntity(g, targetName)
    IN  IF source = Null \/ target = Null THEN Null
        ELSE SearchLoop(g, target[1].id, Len(g.entities) + 1,
                        <<[entityId |-> source[1].id, path |-> <<source[1].id>>,
                           edges |-> <<>>]>>, {})

\* findPath(sourceName, targetName, maxHops): null or a GraphPath
findPath(g, sourceName, targetName, maxHops) ==
    LET source == getEntity(g, sourceName)
        target == getEntity(g, targetName)
    IN  IF source = Null \/ target = Null THEN Null
        ELSE SearchLoop(g, target[1].id, maxHops,
                        <<[entityId |-> source[1].id, path |-> <<source[1].id>>,
                           edges |-> <<>>]>>, {})

\* The Semantics the graph is updated with: two texts (one gives related_to
\* edges, one prefers edges) and entity lists that link a to b, b to c,
\* c to a, a to itself, all three, or nothing; names differ in case and
\* blanks from their normalised form
GraphRefs ==
    {<< <<"a">> >>, << <<"a">>, <<"b">> >>, << <<"b", " ">>, <<"C">> >>,
     << <<"C">>, <<"a">> >>, << <<"a">>, <<"A">> >>,
     << <<"a">>, <<"b">>, <<"C">> >>}

GraphInputs ==
    {[id |-> SemId(1), content |-> <<"h", "i">>, type |-> "fact",
      confidence |-> 50, sourceEpisodes |-> <<>>, entityRefs |-> refs]
        : refs \in GraphRefs}
    \cup
    {[id |-> SemId(2), content |-> <<"l", "i", "k", "e">>, type |-> "preference",
      confidence |-> 50, sourceEpisodes |-> <<>>, entityRefs |-> refs]
        : refs \in GraphRefs}

\* the names findPath is asked about; z is never an entity
QueryNames == {<<"A">>, <<"c">>, <<"z">>}

InitGraph == InitStore /\ backend = "sqlite" /\ foreign_keys = FALSE

GraphUpdate(memory) ==
    /\ calls < MaxUpdates
    /\ calls' = calls + 1
    /\ graph' = update(graph, memory, now)
    /\ ret' = [op |-> "update"]
    /\ UNCHANGED <<backend, foreign_keys, now, db, memories, files, index,
                 engine,
                   reasoning>>

FindPath(sourceName, targetName, maxHops) ==
    /\ ret' = [op |-> "findPath", source |-> sourceName, target |-> targetName,
               maxHops |-> maxHops,
               val |-> findPath(graph, sourceName, targetName, maxHops)]
    /\ UNCHANGED <<backend, foreign_keys, now, db, memories, files, graph, calls, index,
                 engine,
                   reasoning>>

NextGraph ==
    \/ \E m \in GraphInputs : GraphUpdate(m)
    \/ \E a, b \in QueryNames, h \in 0..MaxHops : FindPath(a, b, h)

SpecGraph == InitGraph /\ [][NextGraph]_vars

----------------------------------------------------------------------------
(* Claims about the knowledge graph *)

\* the ids of the entities known under a name
EntitiesNamed(g, name) ==
    {g.entities[k].id : k \in
        {i \in 1..Len(g.entities) :
            trim(toLowerCase(g.entities[i].name)) = trim(toLowerCase(name))}}

\* some relation joins u and v, in either direction
Linked(g, u, v) ==
    \E k \in 1..Len(g.relations) :
        \/ g.relations[k].source = u /\ g.relations[k].target = v
        \/ g.relations[k].source = v /\ g.relations[k].target = u

\* the entities at most n edges away from the entities of U
RECURSIVE Within(_, _, _)
Within(g, U, n) ==
    IF n <= 0 THEN U
    ELSE Within(g, U \cup {g.entities[k].id : k \in
                             {i \in 1..Len(g.entities) :
                                 \E u \in U : Linked(g, u, g.entities[i].id)}},
                n - 1)

\* path is a path of g from an entity named source to one named target, of
\* at most maxHops edges, every edge an existing relation between the two
\* nodes it stands between
IsPathOf(g, path, source, target, maxHops) ==
    /\ Len(path.nodes) = Len(path.edges) + 1
    /\ Len(path.edges) <= maxHops
    /\ path.nodes[1].id \in EntitiesNamed(g, source)
    /\ path.nodes[Len(path.nodes)].id \in EntitiesNamed(g, target)
    /\ \A k \in 1..Len(path.nodes) : path.nodes[k] \in Range(g.entities)
    /\ \A k \in 1..Len(path.edges) :
          /\ path.edges[k] \in Range(g.relations)
          /\ \/ /\ path.edges[k].source = path.nodes[k].id
                /\ path.edges[k].target = path.nodes[k + 1].id
             \/ /\ path.edges[k].target = path.nodes[k].id
                /\ path.edges[k].source = path.nodes[k + 1].id

\* C10: findPath(source, target, maxHops) decides bounded reachability in
\* the undirected relation graph. It returns null exactly when source or
\* target is no known entity or no path of at most maxHops edges joins
\* them; what it returns otherwise is such a path (source = target and
\* maxHops = 0 included).
C10_FindPathBoundedReach ==
    ret.op = "findPath" =>
        LET S == EntitiesNamed(graph, ret.source)
            T == EntitiesNamed(graph, ret.target)
            joined == S # {} /\ T # {} /\ Within(graph, S, ret.maxHops) \cap T # {}
        IN /\ (ret.val = Null) <=> ~joined
           /\ ret.val # Null =>
                 IsPathOf(graph, ret.val[1], ret.source, ret.target, ret.maxHops)

\* C10 witness: a path of exactly maxHops = 2 edges was returned, and the
\* same question with one hop less cannot be answered
C10_Witness ==
    /\ ret.op = "findPath" /\ ret.maxHops = 2 /\ ret.val # Null
    /\ Len(ret.val[1].edges) = 2
    /\ findPath(graph, ret.source, ret.target, 1) = Null

----------------------------------------------------------------------------
(* VectorIndex over a SQLiteMemoryStore                                    *)
(* An embedding is a short vector of integers; a similarity score is in   *)
(* hundredths, rounded down, so that score >= minScore is decided as the   *)
(* code decides it for every threshold that is a whole number of           *)
(* hundredths.                                                             *)

\* query.toLowerCase().split(/\s+/).filter((w) => w.length > 2): the runs of
\* non-blank characters longer than two, in order
RECURSIVE SplitWords(_, _, _)
SplitWords(text, i, cur) ==
    IF i > Len(text)
    THEN (IF Len(cur) > 2 THEN <<cur>> ELSE <<>>)
    ELSE IF text[i] = " "
         THEN (IF Len(cur) > 2 THEN <<cur>> ELSE <<>>)
                  \o SplitWords(text, i + 1, <<>>)
         ELSE SplitWords(text, i + 1, Append(cur, text[i]))

Words(text) == SplitWords(toLowerCase(text), 1, <<>>)

\* the lists a SELECT can return: the ids of hit taken by key, highest first,
\* cut at limit; rows whose keys tie come in an order SQL does not define.
\* key[id] is the tuple of the ORDER BY columns.
Before(k1, k2) ==
    \E i \in 1..Len(k1) :
        /\ k1[i] > k2[i]
        /\ \A j \in 1..(i - 1) : k1[j] = k2[j]

Selected(hit, key, limit) ==
    LET n == Min(Cardinality(hit), limit)
    IN {p \in [1..n -> hit] :
          /\ \A i, j \in 1..n : i < j => p[i] # p[j] /\ ~Before(key[p[j]], key[p[i]])
          /\ \A id \in hit \ Range(p) :
                \A i \in 1..n : ~Before(key[id], key[p[i]])}

\* SQLiteMemoryStore.search(query, {level, limit}); level "" is no level.
\* ORDER BY retention_score DESC, access_count DESC, created_at DESC
SQLite_searchRows(d, query, level, limit) ==
    LET hit == {id \in DOMAIN d.memories :
                  /\ Like(d.memories[id].content, query)
                  /\ (level # "" => d.memories[id].level = level)}
        key == [id \in hit |-> <<d.memories[id].retention_score,
                                 d.memories[id].access_count,
                                 d.memories[id].created_at>>]
    IN Selected(hit, key, limit)

\* SQLiteMemoryStore.searchByKeywords(keywords, {level, limit}). The WHERE
\* clause is  c1 OR c2 OR ... OR cn AND level = ?  and AND binds tighter than
\* OR, so the level is demanded of the rows of the last keyword only.
\* ORDER BY retention_score DESC, access_count DESC
searchByKeywords(d, keywords, level, limit) ==
    IF Len(keywords) = 0 THEN {<<>>}
    ELSE LET n == Len(keywords)
             hit == {id \in DOMAIN d.memories :
                       \/ \E k \in 1..(n - 1) :
                             Like(d.memories[id].content, keywords[k])
                       \/ /\ Like(d.memories[id].content, keywords[n])
                          /\ (level # "" => d.memories[id].level = level)}
             key == [id \in hit |-> <<d.memories[id].retention_score,
                                      d.memories[id].access_count>>]
         IN Selected(hit, key, limit)

\* VectorIndex.cosineSimilarity(a, b), in hundredths rounded towards zero
Dot(a, b) ==
    LET RECURSIVE sum(_)
        sum(i) == IF i = 0 THEN 0 ELSE a[i] * b[i] + sum(i - 1)
    IN sum(Len(a))

cosineSimilarity(a, b) ==
    IF Len(a) # Len(b) THEN 0
    ELSE LET dotProduct == Dot(a, b)
             normA == Dot(a, a)
             normB == Dot(b, b)
             mag == CHOOSE s \in 0..100 :
                       /\ s * s * normA * normB <= 10000 * dotProduct * dotProduct
                       /\ (s = 100 \/
                           (s + 1) * (s + 1) * normA * normB
                               > 10000 * dotProduct * dotProduct)
         IN IF normA = 0 \/ normB = 0 THEN 0
            ELSE IF dotProduct < 0 THEN 0 - mag ELSE mag

\* VectorIndex.getEmbedding(id): the cache first, then the embedding column;
\* [cache, val], a value read from the store being put in the cache
getEmbedding(d, cache, id) ==
    IF id \in DOMAIN cache THEN [cache |-> cache, val |-> Some(cache[id])]
    ELSE IF HasRow(d, id) /\ RowOf(d, id).embedding # Null
    THEN [cache |-> (id :> RowOf(d, id).embedding[1]) @@ cache,
          val |-> RowOf(d, id).embedding]
    ELSE [cache |-> cache, val |-> Null]

\* results.sort((a, b) => b.score - a.score): stable, highest score first
RECURSIVE SortByScore(_)
SortByScore(rs) ==
    IF Len(rs) <= 1 THEN rs
    ELSE LET sorted == SortByScore(SubSeq(rs, 1, Len(rs) - 1))
             x == rs[Len(rs)]
             k == Cardinality({i \in 1..Len(sorted) : sorted[i].score >= x.score})
         IN SubSeq(sorted, 1, k) \o <<x>> \o SubSeq(sorted, k + 1, Len(sorted))

\* the loop of searchByEmbedding over the rows `ids` of store.search
RECURSIVE EmbeddingLoop(_, _, _, _, _, _)
EmbeddingLoop(d, cache, queryEmbedding, minScore, ids, i) ==
    IF i > Len(ids) THEN [cache |-> cache, results |-> <<>>]
    ELSE LET e == getEmbedding(d, cache, ids[i])
             rest == EmbeddingLoop(d, e.cache, queryEmbedding, minScore, ids, i + 1)
             memory == SQLite_rowToMemory(d, RowOf(d, ids[i]))
             score == cosineSimilarity(queryEmbedding, e.val[1])
         IN IF e.val # Null /\ score >= minScore
            THEN [rest EXCEPT !.results =
                     <<[memory |-> memory, score |-> score]>> \o @]
            ELSE rest

\* VectorIndex.searchByEmbedding(queryEmbedding, {level, limit = 10,
\* minScore = 0.5}): the outcomes [cache, val]
searchByEmbedding(d, cache, queryEmbedding, options) ==
    LET level == OrStr(options, "level", "")
        limit == IF "limit" \in DOMAIN options THEN options.limit ELSE 10
        minScore == IF "minScore" \in DOMAIN options THEN options.minScore ELSE 50
    IN {LET r == EmbeddingLoop(d, cache, queryEmbedding, minScore, ids, 1)
            sorted == SortByScore(r.results)
        IN [cache |-> r.cache,
            val |-> SubSeq(sorted, 1, Min(Len(sorted), limit))]
        : ids \in SQLite_searchRows(d, <<>>, level, 1000)}

\* VectorIndex.keywordMatchScore(query, memory), in hundredths rounded down
keywordMatchScore(query, memory) ==
    LET queryWords == Range(Words(query))
        contentWords == Range(Words(extractContent(memory)))
        matchCount == Cardinality(queryWords \cap contentWords)
    IN IF Cardinality(queryWords) > 0
       THEN (100 * matchCount) \div Cardinality(queryWords)
       ELSE 0

\* VectorIndex.fallbackSearch(query, {level, limit = 10, minScore}): minScore
\* is not read
fallbackSearch(d, query, options) ==
    LET level == OrStr(options, "level", "")
        limit == IF "limit" \in DOMAIN options THEN options.limit ELSE 10
        keywords == Words(query)
    IN {[i \in 1..Min(Len(ids), limit) |->
            LET memory == SQLite_rowToMemory(d, RowOf(d, ids[i]))
            IN [memory |-> memory, score |-> keywordMatchScore(query, memory)]]
        : ids \in searchByKeywords(d, keywords, level, limit * 2)}

\* VectorIndex.search(query, options). embedded is what
\* embeddingProvider.embed(query) settles with when it is called: Null when
\* the promise rejects, the embedding otherwise. The outcomes
\* [index, threw, val]; the awaited rejection is not caught.
VectorIndex_search(d, idx, query, options, embedded) ==
    IF idx.embeddingProvider = "null"
    THEN {[index |-> idx, threw |-> FALSE, val |-> v]
            : v \in fallbackSearch(d, query, options)}
    ELSE IF embedded = Null
    THEN {[index |-> idx, threw |-> TRUE, val |-> <<>>]}
    ELSE {[index |-> [idx EXCEPT !.cache = r.cache], threw |-> FALSE,
           val |-> r.val]
            : r \in searchByEmbedding(d, idx.cache, embedded[1], options)}

\* VectorIndex.indexMemory(id, content), embed settling with embedded:
\* [db, index, threw]
indexMemory(d, idx, id, embedded) ==
    IF idx.embeddingProvider = "null"
    THEN [db |-> d, index |-> idx, threw |-> FALSE]
    ELSE IF embedded = Null
    THEN [db |-> d, index |-> idx, threw |-> TRUE]
    ELSE [db |-> [d EXCEPT !.memories =
                    [k \in DOMAIN @ |->
                        IF k = id THEN [@[k] EXCEPT !.embedding = embedded]
                        ELSE @[k]]],
          index |-> [idx EXCEPT !.cache = (id :> embedded[1]) @@ @],
          threw |-> FALSE]

----------------------------------------------------------------------------
(* ConflictDetector over the SQLiteMemoryStore and the VectorIndex         *)
(* The clock of this part counts milliseconds. A Conflict is the record    *)
(* [id, type, memory1, memory2, severity]; its reason text is left out.    *)
(* The random part of a conflict id is taken to differ between the         *)
(* conflicts of one call: it is the position of the pair in the call.      *)

SIMILARITY_THRESHOLD == 85
CONFIDENCE_DIFF_THRESHOLD == 10
HourMs == 3600000            \* 1000 * 60 * 60
Infinity == 2000000000       \* above every time of the model

Abs(x) == IF x < 0 THEN 0 - x ELSE x

ConflictId(t, k) == <<"conflict", t, k>>

\* isFactualConflict(mem1, mem2); entityRefs || []
isFactualConflict(mem1, mem2) ==
    LET content1 == trim(toLowerCase(mem1.content))
        content2 == trim(toLowerCase(mem2.content))
        entities1 == Range(OrArr(mem1, "entityRefs"))
        entities2 == Range(OrArr(mem2, "entityRefs"))
    IN /\ content1 # content2
       /\ entities1 \cap entities2 # {}

negationPatterns ==
    {<<"n", "o", "t">>, <<"d", "o", "n", "'", "t">>,
     <<"d", "o", "e", "s", "n", "'", "t">>, <<"n", "e", "v", "e", "r">>,
     <<"n", "o">>}

\* isPreferenceConflict(mem1, mem2): a pattern counts wherever it occurs in
\* the lower-cased text, inside a word too
isPreferenceConflict(mem1, mem2) ==
    LET hasNegation1 == \E n \in negationPatterns :
                            includes(toLowerCase(mem1.content), n)
        hasNegation2 == \E n \in negationPatterns :
                            includes(toLowerCase(mem2.content), n)
    IN hasNegation1 # hasNegation2

\* hasTemporalConflict(mem1, mem2); period.end || Infinity
hasTemporalConflict(mem1, mem2) ==
    IF ~("validityPeriod" \in DOMAIN mem1 /\ "validityPeriod" \in DOMAIN mem2)
    THEN FALSE
    ELSE LET start1 == mem1.validityPeriod.start
             end1 == OrNum(mem1.validityPeriod, "end", Infinity)
             start2 == mem2.validityPeriod.start
             end2 == OrNum(mem2.validityPeriod, "end", Infinity)
         IN ~(end1 < start2 \/ end2 < start1)

\* calculateSeverity(mem1, mem2); confidence || 0.5
calculateSeverity(mem1, mem2) ==
    LET confDiff == Abs(OrNum(mem1, "confidence", 50) - OrNum(mem2, "confidence", 50))
    IN IF confDiff > CONFIDENCE_DIFF_THRESHOLD THEN "low"
       ELSE IF confDiff > 5 THEN "medium"
       ELSE "high"

\* analyzeConflict(newMemory, existingMemory, similarity): Conflict | null.
\* similarity enters the reason text only. A record without a type (one of
\* another level that the search let through) passes neither type test.
analyzeConflict(newMemory, existingMemory, id) ==
    LET type1 == OrStr(newMemory, "type", "")
        type2 == OrStr(existingMemory, "type", "")
        base == [id |-> id, memory1 |-> newMemory, memory2 |-> existingMemory]
    IN IF /\ type1 = "fact" /\ type2 = "fact"
          /\ isFactualConflict(newMemory, existingMemory)
       THEN Some(base @@ [type |-> "factual",
                          severity |-> calculateSeverity(newMemory, existingMemory)])
       ELSE IF /\ type1 = "preference" /\ type2 = "preference"
               /\ isPreferenceConflict(newMemory, existingMemory)
       THEN Some(base @@ [type |-> "preference", severity |-> "medium"])
       ELSE IF hasTemporalConflict(newMemory, existingMemory)
       THEN Some(base @@ [type |-> "temporal", severity |-> "low"])
       ELSE Null

\* the conflicts of the pairs <<new, existing>> in list order
RECURSIVE AnalyzeAll(_, _, _)
AnalyzeAll(pairs, k, t) ==
    IF k > Len(pairs) THEN <<>>
    ELSE analyzeConflict(pairs[k][1], pairs[k][2], ConflictId(t, k))
            \o AnalyzeAll(pairs, k + 1, t)

\* findSimilarMemories(memory): the search at SIMILARITY_THRESHOLD without
\* the memory itself; the outcomes [index, threw, val]
findSimilarMemories(d, idx, memory, embedded) ==
    {[r EXCEPT !.val = SelectSeq(@, LAMBDA x : x.memory.id # memory.id)] :
        r \in VectorIndex_search(d, idx, memory.content,
                  [level |-> "semantic", limit |-> 10,
                   minScore |-> SIMILARITY_THRESHOLD], embedded)}

\* detect(newMemory) at time t: the outcomes [index, threw, similar, val],
\* similar being the candidates that were analysed
detect(d, idx, newMemory, embedded, t) ==
    {[index |-> r.index, threw |-> r.threw, similar |-> r.val,
      val |-> AnalyzeAll([k \in 1..Len(r.val) |->
                             <<newMemory, r.val[k].memory>>], 1, t)] :
        r \in findSimilarMemories(d, idx, newMemory, embedded)}

\* the pairs <<i, j>>, i < j <= n, in the order of the two nested loops
RECURSIVE PairsFrom(_, _, _)
PairsFrom(i, j, n) ==
    IF i >= n THEN <<>>
    ELSE IF j > n THEN PairsFrom(i + 1, i + 2, n)
    ELSE <<<<i, j>>>> \o PairsFrom(i, j + 1, n)

\* getAllConflicts() at time t: the lists it can return
getAllConflicts(d, t) ==
    {LET ps == PairsFrom(1, 2, Len(ids))
         mem(i) == SQLite_rowToMemory(d, RowOf(d, ids[i]))
     IN AnalyzeAll([k \in 1..Len(ps) |-> <<mem(ps[k][1]), mem(ps[k][2])>>], 1, t)
     : ids \in SQLite_searchRows(d, <<>>, "semantic", 1000)}

\* resolve(conflict): [strategy, winner]; winner "" is no winner.
\* confidence || 0.5 and createdAt || 0
resolve(conflict) ==
    LET mem1 == conflict.memory1
        mem2 == conflict.memory2
        conf1 == OrNum(mem1, "confidence", 50)
        conf2 == OrNum(mem2, "confidence", 50)
        time1 == OrNum(mem1, "createdAt", 0)
        time2 == OrNum(mem2, "createdAt", 0)
    IN IF Abs(conf1 - conf2) > CONFIDENCE_DIFF_THRESHOLD
       THEN [strategy |-> "keep_highest_confidence",
             winner |-> Some(IF conf1 > conf2 THEN mem1.id ELSE mem2.id)]
       ELSE IF Abs(time1 - time2) > HourMs
       THEN [strategy |-> "keep_newest",
             winner |-> Some(IF time1 > time2 THEN mem1.id ELSE mem2.id)]
       ELSE IF conflict.severity = "high"
       THEN [strategy |-> "ask_user", winner |-> Null]
       ELSE [strategy |-> "merge", winner |-> Some(mem1.id)]

\* autoResolve(conflicts): the loop from the i-th conflict on;
\* [db, val], val being the Map from conflict id to resolution
RECURSIVE autoResolveFrom(_, _, _, _, _)
autoResolveFrom(d, fk, conflicts, i, resolutions) ==
    IF i > Len(conflicts) THEN [db |-> d, val |-> resolutions]
    ELSE LET conflict == conflicts[i]
             resolution == resolve(conflict)
             set == (conflict.id :> resolution) @@ resolutions
             loser == IF resolution.winner = Some(conflict.memory1.id)
                      THEN conflict.memory2.id ELSE conflict.memory1.id
         IN IF resolution.strategy \in {"keep_highest_confidence", "keep_newest"}
            THEN autoResolveFrom(SQLite_delete(d, fk, loser).db, fk,
                                 conflicts, i + 1, set)
            ELSE autoResolveFrom(d, fk, conflicts, i + 1, set)

\* an autoResolve that reports the resolutions and applies none
autoResolve_NoDelete(d, fk, conflicts) ==
    [db |-> d, val |-> autoResolveFrom(d, fk, conflicts, 1, EmptyObj).val]

autoResolve(d, fk, conflicts) == autoResolveFrom(d, fk, conflicts, 1, EmptyObj)

----------------------------------------------------------------------------
(* The detector at work: Semantic records as MemoryEngine.remember builds  *)
(* them (id, content, type, confidence, sourceEpisodes, entityRefs) are    *)
(* saved in the SQLiteMemoryStore the detector and the index read.         *)

MaxRows == 2         \* rows in the memories table

Epoch == 3 * HourMs  \* Date.now() at the start

TxtPrefers ==
    <<"U", "s", "e", "r", " ", "p", "r", "e", "f", "e", "r", "s", " ",
      "d", "a", "r", "k", " ", "m", "o", "d", "e">>
TxtDislikes ==
    <<"U", "s", "e", "r", " ", "d", "i", "s", "l", "i", "k", "e", "s", " ",
      "d", "a", "r", "k", " ", "m", "o", "d", "e">>
TxtNever ==
    <<"n", "e", "v", "e", "r", " ", "d", "a", "r", "k", " ", "m", "o", "d", "e">>
TxtBlue == <<"s", "k", "y", " ", "b", "l", "u", "e">>
TxtRed == <<"s", "k", "y", " ", "r", "e", "d">>
TxtUser == <<"U", "s", "e", "r">>
TxtSky == <<"S", "k", "y">>

\* the Semantic of remember(content, {type, confidence, entities}) at
\* Date.now() = Epoch + n
Remembered(n, content, type, confidence, entities) ==
    [id |-> SemId(Epoch + n), content |-> content, type |-> type,
     confidence |-> confidence, sourceEpisodes |-> <<>>,
     entityRefs |-> entities]

SemPrefers == Remembered(1, TxtPrefers, "preference", 90, <<TxtUser>>)
SemDislikes == Remembered(2, TxtDislikes, "preference", 85, <<TxtUser>>)
SemNever ==
    Remembered(3, TxtNever, "preference", 50, <<TxtUser>>)
        @@ [validityPeriod |-> [start |-> 3]]
SemBlue ==
    Remembered(4, TxtBlue, "fact", 90, <<TxtSky>>)
        @@ [validityPeriod |-> [start |-> 1, end |-> 5]]
SemRed == Remembered(5, TxtRed, "fact", 88, <<TxtSky>>)
\* a Semantic handed to detect with confidence 0
SemGray == [Remembered(6, TxtRed, "fact", 0, <<TxtSky>>) EXCEPT
               !.content = <<"s", "k", "y", " ", "g", "r", "a", "y">>]
\* the Original that remember saves next to SemDislikes
OrigDislikes ==
    [id |-> OrigId(Epoch + 2), content |-> TxtDislikes,
     timestamp |-> Epoch + 2, sessionId |-> "default", speaker |-> "user"]

ConflictSemantics ==
    {SemPrefers, SemDislikes, SemNever, SemBlue, SemRed, SemGray}

Embeddings == {<<1, 0>>, <<1, 1>>}
\* what embeddingProvider.embed settles with: Null is a rejection
Embedded == {Null} \cup {Some(e) : e \in Embeddings}

SearchOptions ==
    {EmptyObj,
     [level |-> "semantic", limit |-> 1, minScore |-> 100],
     [level |-> "semantic", limit |-> 10, minScore |-> SIMILARITY_THRESHOLD]}

InitIndex ==
    /\ backend = "sqlite"
    /\ foreign_keys = FALSE
    /\ now = Epoch
    /\ db = EmptyDb
    /\ memories = EmptyMemories
    /\ files = NoFiles
    /\ graph = NoGraph
    /\ calls = 0
    /\ index \in {NoIndex, [NoIndex EXCEPT !.embeddingProvider = "set"]}
    /\ engine = NoEngine
    /\ reasoning = NoReasoning
    /\ ret = [op |-> "init"]

\* the detector over an index that was given no embedding provider
InitConflict == InitIndex /\ index = NoIndex

\* more than an hour goes by
Pass ==
    /\ now = Epoch
    /\ now' = Epoch + HourMs + 1
    /\ ret' = [op |-> "pass"]
    /\ UNCHANGED <<backend, foreign_keys, db, memories, files, graph, calls,
                   index, engine,
                   reasoning>>

\* store.save(memory)
ConflictSave(memory) ==
    /\ HasRow(db, memory.id) \/ Cardinality(DOMAIN db.memories) < MaxRows
    /\ db' = SQLite_save(db, foreign_keys, memory, now).db
    /\ ret' = [op |-> "save", id |-> memory.id]
    /\ UNCHANGED <<backend, foreign_keys, now, memories, files, graph, calls,
                   index, engine,
                   reasoning>>

\* vectorIndex.setEmbeddingProvider(provider)
SetEmbeddingProvider ==
    /\ index.embeddingProvider = "null"
    /\ index' = [index EXCEPT !.embeddingProvider = "set"]
    /\ ret' = [op |-> "setEmbeddingProvider"]
    /\ UNCHANGED <<backend, foreign_keys, now, db, memories, files, graph,
                   calls, engine,
                   reasoning>>

\* vectorIndex.indexMemory(id, content)
IndexMemory(id, embedded) ==
    /\ index.embeddingProvider # "null"
    /\ LET r == indexMemory(db, index, id, embedded)
       IN /\ db' = r.db
          /\ index' = r.index
          /\ ret' = [op |-> "indexMemory", id |-> id, threw |-> r.threw]
    /\ UNCHANGED <<backend, foreign_keys, now, memories, files, graph, calls,
                   engine,
                   reasoning>>

\* vectorIndex.search(query, options)
Search(query, options, embedded) ==
    /\ \E r \in VectorIndex_search(db, index, query, options, embedded) :
          /\ index' = r.index
          /\ ret' = [op |-> "search", query |-> query, options |-> options,
                     provider |-> index.embeddingProvider,
                     embedded |-> embedded, threw |-> r.threw, val |-> r.val]
    /\ UNCHANGED <<backend, foreign_keys, now, db, memories, files, graph,
                   calls, engine,
                   reasoning>>

\* detector.detect(newMemory)
Detect(newMemory, embedded) ==
    /\ \E r \in detect(db, index, newMemory, embedded, now) :
          /\ index' = r.index
          /\ ret' = [op |-> "detect", memory |-> newMemory,
                     provider |-> index.embeddingProvider,
                     threw |-> r.threw, similar |-> r.similar, val |-> r.val]
    /\ UNCHANGED <<backend, foreign_keys, now, db, memories, files, graph,
                   calls, engine,
                   reasoning>>

\* detector.getAllConflicts()
GetAllConflicts ==
    /\ \E v \in getAllConflicts(db, now) :
          ret' = [op |-> "getAllConflicts", threw |-> FALSE, val |-> v]
    /\ UNCHANGED <<backend, foreign_keys, now, db, memories, files, graph,
                   calls, index, engine,
                   reasoning>>

\* the conflicts the caller holds: what the last detect or getAllConflicts
\* returned
Held ==
    IF ret.op \in {"detect", "getAllConflicts"} THEN ret.val ELSE <<>>

\* detector.resolve(conflict)
Resolve(conflict) ==
    /\ ret' = [op |-> "resolve", conflict |-> conflict, val |-> resolve(conflict)]
    /\ UNCHANGED <<backend, foreign_keys, now, db, memories, files, graph,
                   calls, index, engine,
                   reasoning>>

\* detector.autoResolve(conflicts)
AutoResolve(conflicts) ==
    /\ LET r == autoResolve(db, foreign_keys, conflicts)
       IN /\ db' = r.db
          /\ ret' = [op |-> "autoResolve", conflicts |-> conflicts, val |-> r.val]
    /\ UNCHANGED <<backend, foreign_keys, now, memories, files, graph, calls,
                   index, engine,
                   reasoning>>

NextConflict ==
    \/ Pass
    \/ \E m \in ConflictSemantics : ConflictSave(m)
    \/ \E m \in ConflictSemantics : Detect(m, Null)
    \/ GetAllConflicts
    \/ \E k \in 1..Len(Held) : Resolve(Held[k])
    \/ Held # <<>> /\ AutoResolve(Held)

SpecConflict == InitConflict /\ [][NextConflict]_vars

\* The same detector over three of the records and the Theme that groups
\* the two facts, in a database that may or may not enforce foreign keys.
ThemeSky ==
    [id |-> ThemeId(Epoch + 5), name |-> TxtSky,
     description |-> ThemeDescription(TxtSky),
     semanticIds |-> <<SemBlue.id, SemRed.id>>, coherenceScore |-> 90,
     createdAt |-> Epoch + 4, updatedAt |-> Epoch + 5]

AutoInputs == {SemNever, SemBlue, SemRed, ThemeSky}

InitAuto ==
    /\ backend = "sqlite"
    /\ foreign_keys \in BOOLEAN
    /\ now = Epoch
    /\ db = EmptyDb
    /\ memories = EmptyMemories
    /\ files = NoFiles
    /\ graph = NoGraph
    /\ calls = 0
    /\ index = NoIndex
    /\ engine = NoEngine
    /\ reasoning = NoReasoning
    /\ ret = [op |-> "init"]

\* store.save(memory) of one of them
AutoSave(memory) ==
    /\ db' = SQLite_save(db, foreign_keys, memory, now).db
    /\ ret' = [op |-> "save", id |-> memory.id]
    /\ UNCHANGED <<backend, foreign_keys, now, memories, files, graph, calls,
                   index, engine,
                   reasoning>>

NextAuto ==
    \/ Pass
    \/ \E m \in AutoInputs : AutoSave(m)
    \/ \E m \in AutoInputs \ {ThemeSky} : Detect(m, Null)
    \/ GetAllConflicts
    \/ Held # <<>> /\ AutoResolve(Held)

SpecAuto == InitAuto /\ [][NextAuto]_vars

\* Three facts about the same entity, each in conflict with the other two,
\* saved at once or more than an hour apart and resolved together.
ChainInputs == {SemBlue, SemRed, SemGray}

NextChain ==
    \/ Pass
    \/ \E m \in ChainInputs : AutoSave(m)
    \/ GetAllConflicts
    \/ Held # <<>> /\ AutoResolve(Held)

SpecChain == InitAuto /\ [][NextChain]_vars

IndexInputs == {SemPrefers, SemDislikes, OrigDislikes}

\* embed is not called when there is no provider
EmbeddedNow == IF index.embeddingProvider = "null" THEN {Null} ELSE Embedded

NextIndex ==
    \/ \E m \in IndexInputs : ConflictSave(m)
    \/ SetEmbeddingProvider
    \/ \E id \in DOMAIN db.memories, e \in Embedded : IndexMemory(id, e)
    \/ \E m \in IndexInputs, o \in SearchOptions, e \in EmbeddedNow :
          Search(m.content, o, e)
    \/ \E e \in EmbeddedNow : Detect(SemDislikes, e)

SpecIndex == InitIndex /\ [][NextIndex]_vars

----------------------------------------------------------------------------
(* MultiHopReasoning over the store, the index and the graph               *)
(* Confidences are in thousandths. The answer text is kept as the list of  *)
(* its parts, each part a tuple of what the template is filled with.       *)

\* String.prototype.split(/\s+/): the pieces between runs of blanks, the
\* empty pieces at the two ends included
RECURSIVE SplitFrom(_, _, _)
SplitFrom(text, i, cur) ==
    IF i > Len(text) THEN <<cur>>
    ELSE IF text[i] = " "
         THEN (IF i > 1 /\ text[i - 1] = " " THEN SplitFrom(text, i + 1, cur)
               ELSE <<cur>> \o SplitFrom(text, i + 1, <<>>))
         ELSE SplitFrom(text, i + 1, Append(cur, text[i]))

split(text) == SplitFrom(text, 1, <<>>)

\* the element of a one-element set: {e(x) : x \in {v}} names a value v, as a
\* const declaration does, and The takes the result out
The(S) == CHOOSE x \in S : TRUE

\* the concatenation of a list of lists
RECURSIVE Flatten(_)
Flatten(ss) == IF ss = <<>> THEN <<>> ELSE Head(ss) \o Flatten(Tail(ss))

\* Of the lists a SELECT can return, the one whose ties come in the order
\* ord, a list of the ids of the rows it can return: SQL leaves the order of ties open, one
\* database resolves it one way.
PickBy(lists, ord) ==
    LET pos(id) == CHOOSE k \in 1..Len(ord) : ord[k] = id
        leq(p, q) == \/ p = q
                     \/ \E i \in 1..Len(p) :
                           /\ pos(p[i]) < pos(q[i])
                           /\ \A j \in 1..(i - 1) : p[j] = q[j]
    IN CHOOSE p \in lists : \A q \in lists : leq(p, q)

\* extractQueryEntities(query): the words, then the pairs of adjacent words
extractQueryEntities(g, query) ==
    LET words == split(query)
        phrases == [i \in 1..(Len(words) - 1) |->
                      words[i] \o <<" ">> \o words[i + 1]]
    IN Flatten([i \in 1..Len(words) |-> getEntity(g, words[i])])
         \o Flatten([i \in 1..Len(phrases) |-> getEntity(g, phrases[i])])

\* getEntity(getAllEntities().find((e) => e.id === id)?.name || "")
EntityById(g, id) ==
    LET found == SelectSeq(g.entities, LAMBDA e : e.id = id)
    IN getEntity(g, IF found = <<>> THEN <<>> ELSE found[1].name)

\* findMemoriesByEntityId(entityId)
findMemoriesByEntityId(d, g, entityId, ord) ==
    LET entity == EntityById(g, entityId)
    IN IF entity = Null THEN <<>>
       ELSE The({[k \in 1..Len(ids) |-> SQLite_rowToMemory(d, RowOf(d, ids[k]))] :
                   ids \in {PickBy(searchByKeywords(d, <<entity[1].name>>,
                                                    "semantic", 5), ord)}})

\* store.get(id, "semantic") for each id in turn: [db, val], val being the
\* records that were found
RECURSIVE GetSemantics(_, _, _, _)
GetSemantics(d, ids, i, t) ==
    IF i > Len(ids) THEN [db |-> d, val |-> <<>>]
    ELSE LET r == SQLite_get(d, ids[i], "semantic", t)
             rest == GetSemantics(r.db, ids, i + 1, t)
         IN [rest EXCEPT !.val = r.val \o @]

\* executeHop(entities, themes, hopNumber): [db, step, memories, paths]
executeHop(d, g, entities, themes, hopNumber, ord, t) ==
    LET relationsOf(i) == getEntityRelations(g, entities[i].id)
        targetId(i, r) == IF r.source = entities[i].id THEN r.target ELSE r.source
        related ==
            Flatten([i \in 1..Len(entities) |->
                Flatten([k \in 1..Len(relationsOf(i)) |->
                    findMemoriesByEntityId(d, g, targetId(i, relationsOf(i)[k]), ord)])])
        paths ==
            Flatten([i \in 1..Len(entities) |->
                Flatten([k \in 1..Len(relationsOf(i)) |->
                    Flatten([o \in 1..Len(entities) |->
                        IF entities[o].id # entities[i].id
                        THEN findPath(g, entities[i].name, entities[o].name, 2)
                        ELSE <<>>])])])
        semanticIds ==
            Flatten([i \in 1..Len(themes) |->
                substring(OrArr(themes[i], "semanticIds"), 3)])
    IN The({[db |-> got.db,
             step |-> [type |-> "relation_traversal", input |-> hopNumber + 1,
                       confidence |-> Max(500, 1000 - hopNumber * 200),
                       evidence |-> [k \in 1..Len(found) |-> found[k].id]],
             memories |-> found,
             paths |-> paths] :
            got \in {GetSemantics(d, semanticIds, 1, t)},
            found \in {related \o GetSemantics(d, semanticIds, 1, t).val}})

\* the traversal loop of reason from round hop on; acc is
\* [db, steps, evidence, paths, confidence]
RECURSIVE HopLoop(_, _, _, _, _, _, _, _)
HopLoop(acc, g, entities, themes, hop, maxHops, ord, t) ==
    IF hop >= maxHops THEN acc
    ELSE The({IF Len(hopResult.memories) = 0
              THEN [acc EXCEPT !.db = hopResult.db]
              ELSE HopLoop([db |-> hopResult.db,
                            steps |-> Append(acc.steps, hopResult.step),
                            evidence |-> acc.evidence \o hopResult.memories,
                            paths |-> acc.paths \o hopResult.paths,
                            confidence |->
                                (acc.confidence * hopResult.step.confidence)
                                    \div 1000],
                           g, entities, themes, hop + 1, maxHops, ord, t) :
              hopResult \in {executeHop(acc.db, g, entities, themes, hop, ord, t)}})

\* applyInferenceRules(entities, paths): for rule, for path, for edge
applyInferenceRules(g, rules, paths) ==
    Flatten([r \in 1..Len(rules) |->
        Flatten([p \in 1..Len(paths) |->
            Flatten([e \in 1..Len(paths[p].edges) |->
                LET edge == paths[p].edges[e]
                    source == EntityById(g, edge.source)
                    target == EntityById(g, edge.target)
                IN IF /\ source # Null /\ target # Null
                      /\ source[1].type = rules[r].sourceType
                      /\ edge.type = rules[r].relationType
                      /\ target[1].type = rules[r].targetType
                   THEN <<[step |-> [type |-> "inference",
                                     input |-> <<source[1].name, edge.type,
                                                 target[1].name>>,
                                     output |-> <<rules[r].name, source[1].name,
                                                  target[1].name>>,
                                     confidence |-> rules[r].confidence,
                                     evidence |-> edge.evidence],
                           confidence |-> rules[r].confidence]>>
                   ELSE <<>>])])])

\* synthesizeAnswer(query, evidence, paths, inferences): the parts that are
\* joined with line breaks
synthesizeAnswer(evidence, paths, inferences) ==
    LET top == substring(evidence, 3)
        inf == substring(inferences, 2)
    IN (IF Len(evidence) > 0
        THEN <<<<"Based on the following evidence:">>>>
                \o [k \in 1..Len(top) |->
                       <<"- ", substring(extractContent(top[k]), 100), "...">>]
        ELSE <<>>)
       \o (IF Len(inferences) > 0
           THEN <<<<"Inferred insights:">>>>
                   \o [k \in 1..Len(inf) |-> <<"- ", inf[k].step.output>>]
           ELSE <<>>)
       \o (IF Len(paths) > 0
           THEN <<<<"Found ", Len(paths), " connection paths between entities.">>>>
           ELSE <<>>)

\* deduplicateMemories(memories): the first record of every id
deduplicateMemories(ms) ==
    SelectSeq([k \in 1..Len(ms) |->
                  [m |-> ms[k],
                   first |-> \A j \in 1..(k - 1) : ms[j].id # ms[k].id]],
              LAMBDA x : x.first)

RECURSIVE TimesAll(_, _, _)
TimesAll(confidence, inferences, i) ==
    IF i > Len(inferences) THEN confidence
    ELSE TimesAll((confidence * inferences[i].confidence) \div 1000,
                  inferences, i + 1)

\* reason(query, maxHops) at time t, the theme search having the outcome
\* found ([index, threw, val] of VectorIndex.search): [db, index, threw, val]
reason(d, g, rules, query, maxHops, found, ord, t) ==
    IF found.threw
    THEN [db |-> d, index |-> found.index, threw |-> TRUE, val |-> Null]
    ELSE
    LET entities == extractQueryEntities(g, query)
        themes == [k \in 1..Len(found.val) |-> found.val[k].memory]
        step1 == [type |-> "entity_lookup", input |-> query,
                  output |-> [k \in 1..Len(entities) |-> entities[k].name],
                  confidence |-> 900, evidence |-> <<>>]
        step2 == [type |-> "theme_expansion",
                  input |-> [k \in 1..Len(entities) |-> entities[k].name],
                  output |-> Len(themes), confidence |-> 800,
                  evidence |-> [k \in 1..Len(themes) |-> themes[k].id]]
        result(hops, inferences, deduped) ==
            [db |-> hops.db, index |-> found.index, threw |-> FALSE,
             val |-> Some([query |-> query,
                           answer |-> synthesizeAnswer(hops.evidence, hops.paths,
                                                       inferences),
                           steps |-> hops.steps
                                       \o [k \in 1..Len(inferences) |->
                                              inferences[k].step],
                           confidence |-> TimesAll(hops.confidence, inferences, 1),
                           evidence |-> [k \in 1..Len(deduped) |-> deduped[k].m],
                           paths |-> hops.paths])]
    IN The(UNION {{result(hops, inferences, deduplicateMemories(hops.evidence)) :
                     inferences \in {applyInferenceRules(g, rules, hops.paths)}} :
                  hops \in {HopLoop([db |-> d, steps |-> <<step1, step2>>,
                                     evidence |-> themes, paths |-> <<>>,
                                     confidence |-> 1000],
                                    g, entities, themes, 0, maxHops, ord, t)}})

\* What the reasoner runs on: two Semantics, the Theme that lists them, and
\* a graph updated with the Semantics.
TxtAnn == <<"A", "n", "n">>
TxtTea == <<"t", "e", "a">>
SemAnn ==
    Remembered(7, <<"u", "s", "e", "r", " ", "A", "n", "n">>, "fact", 90,
               <<TxtAnn>>)
SemTea ==
    Remembered(8, <<"A", "n", "n", " ", "l", "i", "k", "e", " ", "t", "e", "a">>,
               "preference", 90, <<TxtAnn, TxtTea>>)
ThemeAnn ==
    [id |-> ThemeId(Epoch + 9), name |-> TxtAnn,
     description |-> ThemeDescription(TxtAnn),
     semanticIds |-> <<SemAnn.id, SemTea.id>>, coherenceScore |-> 90,
     createdAt |-> Epoch + 7, updatedAt |-> Epoch + 9]

ReasonInputs == {SemAnn, SemTea, ThemeAnn}

\* "Ann tea" names two entities, "for Bob" and "Bob" name none
Queries ==
    {<<"A", "n", "n", " ", "t", "e", "a">>,
     <<"f", "o", "r", " ", "B", "o", "b">>,
     <<"B", "o", "b">>}

\* the orders in which a set of ids can be listed
Orders(ids) ==
    {p \in [1..Cardinality(ids) -> ids] :
        \A i, j \in 1..Cardinality(ids) : i # j => p[i] # p[j]}

InitReason == InitIndex

\* store.save(memory)
ReasonSave(memory) ==
    /\ ~HasRow(db, memory.id)
    /\ db' = SQLite_save(db, foreign_keys, memory, now).db
    /\ ret' = [op |-> "save", id |-> memory.id]
    /\ UNCHANGED <<backend, foreign_keys, now, memories, files, graph, calls,
                   index, engine,
                   reasoning>>

\* this.rules of an instance made by the constructor: the DEFAULT_RULES array
RulesOfDefault == reasoning["DEFAULT_RULES"]

\* reasoning.reason(query, maxHops)
Reason(query, maxHops, embedded, ord) ==
    /\ \A id \in DOMAIN db.memories : db.memories[id].access_count < MaxAccess
    /\ \E found \in VectorIndex_search(db, index, query,
                       [level |-> "theme", limit |-> 5], embedded) :
          \E r \in {reason(db, graph, RulesOfDefault, query, maxHops, found, ord,
                            now)} :
             /\ db' = r.db
             /\ index' = r.index
             /\ ret' = [op |-> "reason", query |-> query, maxHops |-> maxHops,
                        threw |-> r.threw, val |-> r.val]
    /\ UNCHANGED <<backend, foreign_keys, now, memories, files, graph, calls,
                   engine,
                   reasoning>>

NextReason ==
    \/ \E m \in ReasonInputs : ReasonSave(m)
    \/ \E m \in ReasonInputs \ {ThemeAnn} : GraphUpdate(m)
    \/ \E q \in Queries, h \in 0..MaxHops, e \in EmbeddedNow,
          ord \in Orders(StoredIds \cap {SemAnn.id, SemTea.id}) :
             Reason(q, h, e, ord)

SpecReason == InitReason /\ [][NextReason]_vars

\* searchByKeywords over saved Semantics and an Original
KeywordLists ==
    {<<>>,
     <<<<"d", "a", "r", "k">>>>,
     <<<<"d", "a", "r", "k">>, <<"m", "o", "d", "e">>>>,
     <<<<"p", "r", "e", "f", "e", "r", "s">>, <<"t", "e", "a">>>>,
     <<<<"t", "e", "a">>, <<"d", "i", "s", "l", "i", "k", "e", "s">>>>}

KeywordOptions ==
    {EmptyObj, [level |-> "semantic"], [level |-> "original", limit |-> 1]}

\* store.searchByKeywords(keywords, options)
SearchByKeywords(keywords, options) ==
    /\ \E ids \in searchByKeywords(db, keywords, OrStr(options, "level", ""),
                     IF "limit" \in DOMAIN options THEN options.limit ELSE 10) :
          ret' = [op |-> "searchByKeywords", keywords |-> keywords,
                  options |-> options,
                  val |-> [i \in 1..Len(ids) |->
                              SQLite_rowToMemory(db, RowOf(db, ids[i]))]]
    /\ UNCHANGED <<backend, foreign_keys, now, db, memories, files, graph,
                   calls, index, engine, reasoning>>

NextKeywords ==
    \/ \E m \in IndexInputs : ConflictSave(m)
    \/ \E ks \in KeywordLists, o \in KeywordOptions : SearchByKeywords(ks, o)

SpecKeywords == InitConflict /\ [][NextKeywords]_vars

\* Instances of MultiHopReasoning and the rules added to them
MaxInstances == 3   \* instances constructed
MaxAdded == 3       \* rules pushed onto one array

CustomRules ==
    {[name |-> "works_with", sourceType |-> "person", relationType |-> "knows",
      targetType |-> "person", confidence |-> 600],
     [name |-> "part_of_place", sourceType |-> "location",
      relationType |-> "part_of", targetType |-> "location",
      confidence |-> 500]}

\* this.rules of instance i: the array the instance refers to
RulesOf(r, i) == r[r.instances[i].rules]

\* new MultiHopReasoning(store, vectorIndex, graph): this.rules = DEFAULT_RULES
NewReasoning ==
    /\ Len(reasoning.instances) < MaxInstances
    /\ reasoning' = [reasoning EXCEPT
                        !.instances = Append(@, [rules |-> "DEFAULT_RULES"])]
    /\ ret' = [op |-> "new", i |-> Len(reasoning.instances) + 1]
    /\ UNCHANGED <<backend, foreign_keys, now, db, memories, files, graph,
                   calls, index, engine>>

\* instance i's addRule(rule): this.rules.push(rule)
AddRule(i, rule) ==
    /\ Len(RulesOf(reasoning, i)) < Len(DEFAULT_RULES) + MaxAdded
    /\ reasoning' = [reasoning EXCEPT
                        ![reasoning.instances[i].rules] = Append(@, rule)]
    /\ ret' = [op |-> "addRule", i |-> i, rule |-> rule]
    /\ UNCHANGED <<backend, foreign_keys, now, db, memories, files, graph,
                   calls, index, engine>>

InitRules == InitConflict

NextRules ==
    \/ NewReasoning
    \/ \E i \in 1..Len(reasoning.instances), rule \in CustomRules :
          AddRule(i, rule)

SpecRules == InitRules /\ [][NextRules]_vars

----------------------------------------------------------------------------
(* Claims about the conflict detector *)

\* C11: with "User prefers dark mode" (preference, 0.9, User) remembered and
\* then "User dislikes dark mode" (preference, 0.85, User), detect on the
\* second Semantic returns exactly one conflict: of type preference, of
\* severity low, its memories being the second and the first Semantic.
C11_DetectDarkMode ==
    (/\ ret.op = "detect" /\ ~ret.threw
     /\ ret.memory = SemDislikes
     /\ DOMAIN db.memories = {SemPrefers.id, SemDislikes.id}
     /\ RowOf(db, SemPrefers.id).created_at <= RowOf(db, SemDislikes.id).created_at)
    => /\ Len(ret.val) = 1
       /\ ret.val[1].type = "preference"
       /\ ret.val[1].severity = "low"
       /\ ret.val[1].memory1.id = SemDislikes.id
       /\ ret.val[1].memory2.id = SemPrefers.id

\* the severities the stated rule allows for two confidences: low above a
\* gap of 0.1, medium from 0.05 to 0.1, high below 0.05 (a gap of exactly
\* 0.05 may be read either way)
GapSeverities(c1, c2) ==
    LET gap == Abs(c1 - c2)
    IN IF gap > 10 THEN {"low"}
       ELSE IF gap > 5 THEN {"medium"}
       ELSE IF gap = 5 THEN {"medium", "high"}
       ELSE {"high"}

\* C12: every conflict that detect or getAllConflicts returns, whatever its
\* type, has the severity that the gap between the two confidences gives.
C12_SeverityFromGap ==
    ret.op \in {"detect", "getAllConflicts"} =>
        \A k \in 1..Len(ret.val) :
            ret.val[k].severity \in
                GapSeverities(ret.val[k].memory1.confidence,
                              ret.val[k].memory2.confidence)

\* what the stated policy gives for a conflict between two stored records:
\* the confidences are those of the two records, the creation times those
\* of their rows
PolicyOf(d, conflict) ==
    LET m1 == conflict.memory1
        m2 == conflict.memory2
        t1 == RowOf(d, m1.id).created_at
        t2 == RowOf(d, m2.id).created_at
    IN IF Abs(m1.confidence - m2.confidence) > 10
       THEN [strategy |-> "keep_highest_confidence",
             winner |-> Some(IF m1.confidence > m2.confidence THEN m1.id ELSE m2.id)]
       ELSE IF Abs(t1 - t2) > HourMs
       THEN [strategy |-> "keep_newest",
             winner |-> Some(IF t1 > t2 THEN m1.id ELSE m2.id)]
       ELSE IF conflict.severity = "high"
       THEN [strategy |-> "ask_user", winner |-> Null]
       ELSE [strategy |-> "merge", winner |-> Some(m1.id)]

\* C13: resolve(conflict) changes no stored record and answers by the first
\* of four rules that applies: confidence gap above 0.1, keep the record of
\* higher confidence; creation times more than an hour apart, keep the newer
\* record; severity high, ask the user (no winner); otherwise merge, the
\* winner being the first memory.
C13_ResolvePolicy ==
    [][(/\ ret'.op = "resolve"
        /\ HasRow(db, ret'.conflict.memory1.id)
        /\ HasRow(db, ret'.conflict.memory2.id))
       => /\ db' = db
          /\ ret'.val = PolicyOf(db, ret'.conflict)]_vars

\* the memory of a conflict that a resolution does not keep
LoserOf(conflict, resolution) ==
    IF resolution.winner = Some(conflict.memory1.id)
    THEN conflict.memory2.id ELSE conflict.memory1.id

\* the ids that the resolutions of a list of conflicts give up
Losers(conflicts) ==
    {LoserOf(conflicts[k], resolve(conflicts[k])) :
        k \in {i \in 1..Len(conflicts) :
                 resolve(conflicts[i]).strategy
                    \in {"keep_highest_confidence", "keep_newest"}}}

\* the rows of a relation table that name none of the ids
NotNaming(rows, ids) ==
    SelectSeq(rows, LAMBDA j : j.owner \notin ids /\ j.ref \notin ids)

----------------------------------------------------------------------------
(* Claims about the vector index *)

\* C15: every result of search(query, {level, limit, minScore}) has a score
\* of at least minScore and the requested level, and there are at most
\* limit results, with an embedding provider and without one.
C15_SearchRespectsOptions ==
    (ret.op = "search" /\ ~ret.threw) =>
        LET o == ret.options
            limit == IF "limit" \in DOMAIN o THEN o.limit ELSE 10
            minScore == IF "minScore" \in DOMAIN o THEN o.minScore ELSE 50
        IN /\ Len(ret.val) <= limit
           /\ \A k \in 1..Len(ret.val) :
                 /\ ret.val[k].score >= minScore
                 /\ "level" \in DOMAIN o => getLevel(ret.val[k].memory) = o.level

\* the same of the searches that embedded their query
EmbeddedSearchRespectsOptions ==
    (ret.op = "search" /\ ret.provider = "null") \/ C15_SearchRespectsOptions

\* C16: when embeddingProvider.embed rejects during search, the call does
\* not fail: it returns what the keyword fallback returns for the query, and
\* the provider stays configured.
C16_EmbedFailureFallsBack ==
    (ret.op = "search" /\ ret.provider = "set" /\ ret.embedded = Null) =>
        /\ ~ret.threw
        /\ ret.val \in fallbackSearch(db, ret.query, ret.options)
        /\ index.embeddingProvider = "set"

----------------------------------------------------------------------------
(* Claims about the reasoner *)

\* C17: reason(query, maxHops) on a query that names no known entity
\* returns, without throwing, a result that carries the query, an answer,
\* no evidence and no paths, whatever the store and the graph hold.
C17_NoEntityNoEvidence ==
    (ret.op = "reason" /\ extractQueryEntities(graph, ret.query) = <<>>) =>
        /\ ~ret.threw
        /\ ret.val[1].query = ret.query
        /\ ret.val[1].evidence = <<>>
        /\ ret.val[1].paths = <<>>

----------------------------------------------------------------------------
(* Claims about scores *)

\* C18: after any remember call, whatever confidence the caller passes, the
\* stored Semantic's confidence and the stored Episode's and Theme's
\* coherenceScore lie in [0, 1].
C18_ScoresInRange ==
    \A m \in StoredRecords :
        /\ "confidence" \in DOMAIN m => m.confidence \in 0..100
        /\ "coherenceScore" \in DOMAIN m => m.coherenceScore \in 0..100

----------------------------------------------------------------------------
(* Claims about repeated forgetting runs *)

\* C19: archiveLowValue(threshold) run twice in a row at the same clock
\* time, nothing in between: the second run leaves the same stored records
\* with the same stored retention scores, and reports deleted = 0.
C19_ArchiveIdempotent ==
    [][ (/\ ret.op = "archiveLowValue"
         /\ ret'.op = "archiveLowValue"
         /\ ret'.threshold = ret.threshold)
        => /\ DOMAIN db'.memories = DOMAIN db.memories
           /\ \A id \in DOMAIN db.memories :
                 RowOf(db', id).retention_score = RowOf(db, id).retention_score
           /\ ret'.val.deleted = 0 ]_vars

----------------------------------------------------------------------------
(* Claims about engine initialisation *)

\* C20: two remember calls made before the engine's first init is over both
\* suspend inside init; once both have returned, the engine has one store
\* and the records of both calls are in it.
C20_InitInterleavingSafe ==
    \A i, j \in 1..Len(engine.pc) :
        (/\ i # j
         /\ engine.pc[i].at = "done" /\ engine.pc[i].viaInit
         /\ engine.pc[j].at = "done" /\ engine.pc[j].viaInit)
        => /\ engine.pc[i].store = engine.store
           /\ engine.pc[j].store = engine.store
           /\ \A l \in DOMAIN engine.pc[i].ids : engine.pc[i].ids[l] \in StoredIds
           /\ \A l \in DOMAIN engine.pc[j].ids : engine.pc[j].ids[l] \in StoredIds

----------------------------------------------------------------------------
(* Claims about resolving several conflicts at once *)

\* C21: a memory that a resolution returned by autoResolve names as winner
\* is in the store when autoResolve returns.
C21_WinnersStayStored ==
    ret.op = "autoResolve" =>
        \A id \in DOMAIN ret.val :
            ret.val[id].winner # Null => HasRow(db, ret.val[id].winner[1])

----------------------------------------------------------------------------
(* Claims about the join tables *)

\* C22: after save(memory) has completed, whatever was stored under that id
\* before, get(memory.id, level) returns as semanticIds (sourceEpisodes,
\* originalIds) exactly the list given in this save.
C22_JoinRowsReplaced ==
    [][(ret'.op = "save" /\ ret'.ok)
       => LET got == SQLite_get(db', ret'.arg.id, getLevel(ret'.arg), now).val
          IN /\ got # Null
             /\ ListOf(got[1]) = ListOf(ret'.arg)]_vars

\* C22 witness: a Theme stored with two semantic ids has been saved again
\* with one other list, and reads back with that list
C22_Witness ==
    /\ ret.op = "save" /\ ret.ok
    /\ ret.before = Some(<<SemId(1), SemId(2)>>)
    /\ ret.arg.semanticIds = <<SemId(2)>>
    /\ getThemeSemanticIds(db, ret.arg.id) = <<SemId(2)>>

----------------------------------------------------------------------------
(* Claims about the edges of the knowledge graph *)

\* C23: after any sequence of update calls the graph has at most one
\* relation edge per unordered pair of entities and relation type, the two
\* entities having come in either order in entityRefs.
C23_OneEdgePerPair ==
    \A i, j \in 1..Len(graph.relations) :
        LET r1 == graph.relations[i]
            r2 == graph.relations[j]
        IN (/\ {r1.source, r1.target} = {r2.source, r2.target}
            /\ r1.type = r2.type)
           => i = j

----------------------------------------------------------------------------
(* Claims about retention and reads *)

\* C24: of two stored records of the same age, more than 0 days, whose
\* retention is above the floor, the one that was read through get more
\* often has the strictly higher retention score.
C24_ReadsRaiseRetention ==
    ret.op = "getMemoryScores" =>
        \A a, b \in ret.val :
            (/\ HasRow(db, a.id) /\ HasRow(db, b.id)
             /\ RowOf(db, a.id).created_at = RowOf(db, b.id).created_at
             /\ now > RowOf(db, a.id).created_at
             /\ RowOf(db, a.id).access_count > RowOf(db, b.id).access_count
             /\ a.retentionScore > MIN_RETENTION
             /\ b.retentionScore > MIN_RETENTION)
            => a.retentionScore > b.retentionScore

----------------------------------------------------------------------------
(* Claims about the traversal loop of reason *)

\* C25: a reason call records at most maxHops relation_traversal steps, and
\* every one of them found a memory that no earlier step had in its
\* evidence: the loop stops at the first round that finds nothing new, and
\* such a round adds no step.
C25_TraversalStopsWhenNothingNew ==
    (ret.op = "reason" /\ ~ret.threw) =>
        LET steps == ret.val[1].steps
            rounds == {k \in 1..Len(steps) : steps[k].type = "relation_traversal"}
            seenBefore(k) ==
                UNION {Range(steps[j].evidence) : j \in 1..(k - 1)}
        IN /\ Cardinality(rounds) <= ret.maxHops
           /\ \A k \in rounds :
                 \E id \in Range(steps[k].evidence) : id \notin seenBefore(k)

----------------------------------------------------------------------------
(* Claims about the references between stored records *)

\* C26: after any sequence of remember and delete, every id in a stored
\* Theme's semanticIds is the id of a stored Semantic, every id in a stored
\* Semantic's sourceEpisodes is the id of a stored Episode, and every id in
\* a stored Episode's originalIds is the id of a stored Original.
C26_ReferencesResolve ==
    /\ \A i \in 1..Len(memories["theme"]) :
          \A id \in Range(memories["theme"][i].semanticIds) :
             MapHas(memories["semantic"], id)
    /\ \A i \in 1..Len(memories["semantic"]) :
          \A id \in Range(memories["semantic"][i].sourceEpisodes) :
             MapHas(memories["episode"], id)
    /\ \A i \in 1..Len(memories["episode"]) :
          \A id \in Range(memories["episode"][i].originalIds) :
             MapHas(memories["original"], id)

----------------------------------------------------------------------------
(* Claims about the tracking columns *)

\* C27: a save of an id that is already stored leaves the row's access
\* count, last-accessed time, creation time and retention score as they
\* were; no step lowers the access count of a row that stays stored.
C27_SaveKeepsTracking ==
    [][/\ (ret'.op = "save" /\ ret'.ok /\ backend \in {"sqlite", "sqljs"}
           /\ HasRow(db, ret'.arg.id))
          => LET old == RowOf(db, ret'.arg.id)
                 new == RowOf(db', ret'.arg.id)
             IN /\ new.access_count = old.access_count
                /\ new.last_accessed = old.last_accessed
                /\ new.created_at = old.created_at
                /\ new.retention_score = old.retention_score
       /\ \A id \in DOMAIN db.memories :
             HasRow(db', id)
                => RowOf(db', id).access_count >= RowOf(db, id).access_count]_vars

----------------------------------------------------------------------------
(* Claims about the embedding cache *)

\* SQLiteMemoryStore.getEmbedding(id): null without a row or an embedding
SQLite_getEmbedding(d, id) ==
    IF HasRow(d, id) /\ RowOf(d, id).embedding # Null
    THEN RowOf(d, id).embedding
    ELSE Null

\* C28: after any sequence of store.save, indexMemory and search, what
\* VectorIndex.getEmbedding(id) returns is what store.getEmbedding(id)
\* returns, null included, for every id.
C28_CacheAgreesWithStore ==
    \A m \in IndexInputs :
        getEmbedding(db, index.cache, m.id).val = SQLite_getEmbedding(db, m.id)

----------------------------------------------------------------------------
(* Claims about the inference rules *)

\* C29: addRule on one MultiHopReasoning instance changes the rules of that
\* instance only: the rules of every other instance stay as they were, the
\* default table stays the three built-in rules, and an instance constructed
\* later starts with exactly those three.
C29_AddRuleIsPerInstance ==
    [][/\ ret'.op = "addRule"
          => /\ \A j \in 1..Len(reasoning.instances) :
                   j # ret'.i => RulesOf(reasoning', j) = RulesOf(reasoning, j)
             /\ reasoning'["DEFAULT_RULES"] = DEFAULT_RULES
       /\ ret'.op = "new"
          => RulesOf(reasoning', ret'.i) = DEFAULT_RULES]_vars

----------------------------------------------------------------------------
(* Claims about the keyword search *)

\* C30: searchByKeywords(keywords, {level, limit}) with a level returns
\* records of that level only, whatever the number of keywords; the text of
\* every record it returns contains at least one of the keywords; with no
\* keyword it returns the empty list.
C30_KeywordSearchKeepsLevel ==
    ret.op = "searchByKeywords" =>
        /\ "level" \in DOMAIN ret.options
              => \A i \in 1..Len(ret.val) :
                    getLevel(ret.val[i]) = ret.options.level
        /\ \A i \in 1..Len(ret.val) :
              \E k \in 1..Len(ret.keywords) :
                 Like(extractContent(ret.val[i]), ret.keywords[k])
        /\ Len(ret.keywords) = 0 => ret.val = <<>>

====
